---- MODULE Spec2Model ----
(***************************************************************************)
(* Node inventory and scoped configuration store of cluster_manager.       *)
(*                                                                         *)
(* The model follows src/cluster_manager/inventory.py (InventoryManager)   *)
(* and src/cluster_manager/models/node.py (Node, NodeTaint).  The state is *)
(* the inventory file, its .yml.backup sibling and a record of the last    *)
(* public call and its outcome.  Every public method of InventoryManager   *)
(* is one action; the helpers it calls are operators of the same name.     *)
(***************************************************************************)
EXTENDS Integers, Sequences, FiniteSets, TLC

VARIABLES file, backup, last, nops, rt, conc, io, inst, tui

vars == <<file, backup, last, nops, rt, conc, io, inst, tui>>

\* the state of the specifications other than the one that is running
aux == <<rt, conc, io, inst, tui>>

----------------------------------------------------------------------------
(* Bounds of the model *)

\* number of public calls in one behaviour
MaxOps == 2
\* the hostnames the callers choose from
Hostnames == {"cp-1", "w-1"}

\* the tailscale addresses the callers choose from
Addrs == {"100.64.0.1", "fd7a::1"}

----------------------------------------------------------------------------
(* Optional values: Python None is the empty tuple, a value v is <<v>> *)

None == <<>>
Some(v) == <<v>>

----------------------------------------------------------------------------
(* IP addresses (pydantic IPvAnyAddress).  An address is identified with   *)
(* its canonical text; the stored text may be another spelling of it.      *)

InvalidAddr == "<invalid>"

\* IPvAnyAddress(text): the address a stored text denotes
ParseIP(text) ==
    CASE text \in {"100.64.0.1", "100.64.0.2", "100.64.0.3"} -> text
      [] text \in {"fd7a::1", "FD7A::1", "fd7a:0:0:0:0:0:0:1"} -> "fd7a::1"
      [] OTHER -> InvalidAddr

\* str(address): the canonical text of an address
StrIP(addr) == addr

----------------------------------------------------------------------------
(* models/node.py *)

Roles == {"control-plane", "worker"}
TaintEffects == {"NoSchedule", "PreferNoSchedule", "NoExecute"}

\* hostnames accepted by the RFC 1123 pattern of Node.validate_hostname,
\* among the texts that occur in the model
validate_hostname(v) ==
    v \in {"cp-1", "w-1", "w-2", "gw.lan"}

validate_ansible_host(v) == v # ""

validate_role(v) == v \in Roles

validate_effect(v) == v \in TaintEffects

\* Python truthiness of an optional string / bool / dict / list
TruthyOpt(o) == o # None /\ o[1] # ""

OptEntry(cond, key, val) == IF cond THEN key :> val ELSE <<>>

\* to_inventory_dict that forgets the gpu flag
to_inventory_dict_NoGpu(n) ==
    [ansible_host |-> n.ansible_host, tailscale_ip |-> StrIP(n.tailscale_ip)]
    @@ OptEntry(TruthyOpt(n.reserved_cpu), "reserved_cpu", n.reserved_cpu[1])
    @@ OptEntry(TruthyOpt(n.reserved_memory), "reserved_memory", n.reserved_memory[1])
    @@ OptEntry(DOMAIN n.node_labels # {}, "node_labels", n.node_labels)
    @@ OptEntry(n.node_taints # <<>>, "node_taints", n.node_taints)

\* to_inventory_dict that leaves out tailscale_ip
to_inventory_dict_NoAddr(n) ==
    [ansible_host |-> n.ansible_host]
    @@ OptEntry(TruthyOpt(n.reserved_cpu), "reserved_cpu", n.reserved_cpu[1])
    @@ OptEntry(TruthyOpt(n.reserved_memory), "reserved_memory", n.reserved_memory[1])
    @@ OptEntry(n.gpu, "gpu", n.gpu)
    @@ OptEntry(DOMAIN n.node_labels # {}, "node_labels", n.node_labels)
    @@ OptEntry(n.node_taints # <<>>, "node_taints", n.node_taints)

\* to_inventory_dict that writes the gpu flag whatever its value
to_inventory_dict_AlwaysGpu(n) ==
    [ansible_host |-> n.ansible_host, tailscale_ip |-> StrIP(n.tailscale_ip)]
    @@ OptEntry(TruthyOpt(n.reserved_cpu), "reserved_cpu", n.reserved_cpu[1])
    @@ OptEntry(TruthyOpt(n.reserved_memory), "reserved_memory", n.reserved_memory[1])
    @@ OptEntry(TRUE, "gpu", n.gpu)
    @@ OptEntry(DOMAIN n.node_labels # {}, "node_labels", n.node_labels)
    @@ OptEntry(n.node_taints # <<>>, "node_taints", n.node_taints)

\* Node.to_inventory_dict
to_inventory_dict(n) ==
    [ansible_host |-> n.ansible_host, tailscale_ip |-> StrIP(n.tailscale_ip)]
    @@ OptEntry(TruthyOpt(n.reserved_cpu), "reserved_cpu", n.reserved_cpu[1])
    @@ OptEntry(TruthyOpt(n.reserved_memory), "reserved_memory", n.reserved_memory[1])
    @@ OptEntry(n.gpu, "gpu", n.gpu)
    @@ OptEntry(DOMAIN n.node_labels # {}, "node_labels", n.node_labels)
    @@ OptEntry(n.node_taints # <<>>, "node_taints", n.node_taints)

\* dict.get(key, default)
Get(d, key, default) == IF key \in DOMAIN d THEN d[key] ELSE default

\* dict.get(key) for an optional string field
GetOpt(d, key) == IF key \in DOMAIN d THEN Some(d[key]) ELSE None

\* The Node that from_inventory_dict builds, before pydantic validation
from_inventory_dict_fields(hostname, data) ==
    [hostname        |-> hostname,
     ansible_host    |-> data["ansible_host"],
     tailscale_ip    |-> ParseIP(data["tailscale_ip"]),
     role            |-> Get(data, "role", "worker"),
     reserved_cpu    |-> GetOpt(data, "reserved_cpu"),
     reserved_memory |-> GetOpt(data, "reserved_memory"),
     gpu             |-> Get(data, "gpu", FALSE),
     node_labels     |-> Get(data, "node_labels", <<>>),
     node_taints     |-> Get(data, "node_taints", <<>>)]

\* Node(...) succeeds: the field validators of Node and NodeTaint
NodeValid(n) ==
    /\ validate_hostname(n.hostname)
    /\ validate_ansible_host(n.ansible_host)
    /\ n.tailscale_ip # InvalidAddr
    /\ validate_role(n.role)
    /\ \A i \in DOMAIN n.node_taints : validate_effect(n.node_taints[i].effect)

\* from_inventory_dict raises (KeyError or ValidationError) or returns a Node
from_inventory_dict_ok(hostname, data) ==
    /\ {"ansible_host", "tailscale_ip"} \subseteq DOMAIN data
    /\ NodeValid(from_inventory_dict_fields(hostname, data))

from_inventory_dict(hostname, data) == from_inventory_dict_fields(hostname, data)

----------------------------------------------------------------------------
(* The document tree.                                                      *)
(*   Doc   = [hasAll, hasChildren, hasVars, vars, children]                *)
(*   Group = [hostsKind, hosts, hasVars, vars]                             *)
(* hasAll / hasChildren / hasVars say whether the key is present;          *)
(* hostsKind is "absent", "mapping" or "other" (a hosts value that is not  *)
(* a mapping).  children maps group names to Groups, hosts maps hostnames  *)
(* to host entries (the dict of to_inventory_dict), vars maps variable     *)
(* names to values [kind, text].                                           *)

EmptyMap == <<>>

RequiredGroups == <<"control_plane", "workers">>

GroupOf(role) == IF role = "control-plane" THEN "control_plane" ELSE "workers"

RoleOf(group) == IF group = "control_plane" THEN "control-plane" ELSE "worker"

NewGroup == [hostsKind |-> "absent", hosts |-> EmptyMap,
             hasVars |-> FALSE, vars |-> EmptyMap]

\* d[key] = val on a Python dict
Put(d, key, val) == (key :> val) @@ d

\* del d[key]
Del(d, key) == [k \in (DOMAIN d) \ {key} |-> d[k]]

\* some enumeration of a finite set, standing for dict iteration order
RECURSIVE SetToSeq(_)
SetToSeq(S) ==
    IF S = {} THEN <<>>
    ELSE LET x == CHOOSE y \in S : TRUE IN <<x>> \o SetToSeq(S \ {x})

----------------------------------------------------------------------------
(* YAML scalars: what ruamel's dump writes and what its load resolves      *)

\* the type the YAML 1.2 core schema resolves a plain scalar to
PlainResolves(text) ==
    CASE text \in {"true", "false"} -> "bool"
      [] text \in {"0", "1", "2", "4"} -> "int"
      [] text \in {"", "null", "~"} -> "null"
      [] OTHER -> "str"

\* yaml.dump of a scalar: a string that would resolve to another type is quoted
DumpScalar(v) ==
    [quoted |-> (v.kind = "str" /\ PlainResolves(v.text) # "str"), text |-> v.text]

\* yaml.load of a scalar token
LoadScalar(t) ==
    [kind |-> IF t.quoted THEN "str" ELSE PlainResolves(t.text), text |-> t.text]

\* a variable whose value is a nested mapping
MapValue(m) == [kind |-> "map", text |-> "", items |-> m]

\* yaml.dump of a variable's value: a scalar, or a mapping key by key
RECURSIVE DumpValue(_)
DumpValue(v) ==
    IF v.kind = "map"
    THEN [v EXCEPT !.items = [k \in DOMAIN v.items |-> DumpValue(v.items[k])]]
    ELSE DumpScalar(v)

\* yaml.load of a variable's value
RECURSIVE LoadValue(_)
LoadValue(t) ==
    IF "items" \in DOMAIN t
    THEN [t EXCEPT !.items = [k \in DOMAIN t.items |-> LoadValue(t.items[k])]]
    ELSE LoadScalar(t)

DumpVars(m) == [k \in DOMAIN m |-> DumpValue(m[k])]

LoadVars(m) == [k \in DOMAIN m |-> LoadValue(m[k])]

StringFields == {"ansible_host", "tailscale_ip", "reserved_cpu", "reserved_memory"}

DumpEntry(e) ==
    [k \in DOMAIN e |->
        IF k \in StringFields THEN DumpScalar([kind |-> "str", text |-> e[k]])
        ELSE e[k]]

LoadEntry(e) ==
    [k \in DOMAIN e |-> IF k \in StringFields THEN LoadScalar(e[k]).text ELSE e[k]]

DumpGroup(g) ==
    [g EXCEPT !.hosts = [h \in DOMAIN g.hosts |-> DumpEntry(g.hosts[h])],
              !.vars = DumpVars(g.vars)]

LoadGroup(g) ==
    [g EXCEPT !.hosts = [h \in DOMAIN g.hosts |-> LoadEntry(g.hosts[h])],
              !.vars = LoadVars(g.vars)]

\* self.yaml.dump(data, f)
YamlDump(data) ==
    [data EXCEPT !.vars = DumpVars(data.vars),
                 !.children = [g \in DOMAIN data.children |-> DumpGroup(data.children[g])]]

\* self.yaml.load(f)
YamlLoad(text) ==
    [text EXCEPT !.vars = LoadVars(text.vars),
                 !.children = [g \in DOMAIN text.children |-> LoadGroup(text.children[g])]]

----------------------------------------------------------------------------
(* inventory.py: the file, read and write *)

NoDoc == [hasAll |-> FALSE, hasChildren |-> FALSE, hasVars |-> FALSE,
          vars |-> EmptyMap, children |-> EmptyMap]

\* a path that does not exist
Missing == [state |-> "missing", doc |-> NoDoc]

\* InventoryManager.read: [err, data]
read(f) ==
    CASE f.state = "missing" -> [err |-> "NotFound", data |-> NoDoc]
      [] f.state = "empty"   -> [err |-> "Empty", data |-> NoDoc]
      [] f.state = "partial" -> [err |-> "ParseError", data |-> NoDoc]
      [] OTHER               -> [err |-> "", data |-> f.doc]

\* write that overwrites the file without copying it to the backup first
write_NoBackup(f, b, data) ==
    [file   |-> [state |-> "doc", doc |-> YamlLoad(YamlDump(data))],
     backup |-> b]


\* InventoryManager.write: the file and the backup after writing data
write(f, b, data) ==
    [file   |-> [state |-> "doc", doc |-> YamlLoad(YamlDump(data))],
     backup |-> IF f.state # "missing" THEN f ELSE b]

\* a file whose content is the beginning of a dump, and a file of length 0
Partial == [state |-> "partial", doc |-> NoDoc]
Truncated == [state |-> "empty", doc |-> NoDoc]

\* the ways the write step can end on file f: mkdir can fail only when the
\* path (and possibly its directory) does not exist, shutil.copy2 only when
\* there is a file to copy; open(path, "w") and yaml.dump can always fail,
\* and the process can die while dumping
WriteOutcomes(f) ==
    {"ok", "open", "dump_empty", "dump_partial", "crash"}
    \cup (IF f.state = "missing" THEN {"mkdir"} ELSE {"copy_denied", "copy_partial"})

\* InventoryManager.write with the outcome of its file system calls:
\* [file, backup, err, stage], stage being the statement that ended the write.
\* open(path, "w") truncates the file before yaml.dump writes a byte.
write_io(f, b, data, outcome) ==
    LET w == write(f, b, data)
        End(file_, backup_, err, stage) ==
            [file |-> file_, backup |-> backup_, err |-> err, stage |-> stage]
    IN CASE outcome = "ok"           -> End(w.file, w.backup, "", "done")
         [] outcome = "mkdir"        -> End(f, b, "PermissionDenied", "mkdir")
         [] outcome = "copy_denied"  -> End(f, b, "PermissionDenied", "copy")
         [] outcome = "copy_partial" -> End(f, Partial, "WriteFailed", "copy")
         [] outcome = "open"         -> End(f, w.backup, "PermissionDenied", "open")
         [] outcome = "dump_empty"   -> End(Truncated, w.backup, "WriteFailed", "dump")
         [] outcome = "dump_partial" -> End(Partial, w.backup, "WriteFailed", "dump")
         [] outcome = "crash"        -> End(Partial, w.backup, "Crashed", "dump")

----------------------------------------------------------------------------
(* inventory.py: validate and get_nodes *)

\* {**host_data, "role": role}
\* the entry's own role key wins over the role of the group
WithRole_KeepStored(host_data, role) == host_data @@ ("role" :> role)

WithRole(host_data, role) == ("role" :> role) @@ host_data

\* InventoryManager._validate_host: TRUE when no InventoryValidationError
validate_host(hostname, host_data, group) ==
    /\ \A field \in {"ansible_host", "tailscale_ip"} : field \in DOMAIN host_data
    /\ from_inventory_dict_ok(hostname, WithRole(host_data, RoleOf(group)))

\* validate that accepts a document without one of the required groups
validate_NoGroupCheck(data) ==
    /\ data.hasAll
    /\ data.hasChildren
    /\ \A i \in DOMAIN RequiredGroups :
         LET group == RequiredGroups[i] IN
         group \in DOMAIN data.children =>
            LET group_data == data.children[group] IN
            /\ group_data.hostsKind # "other"
            /\ group_data.hostsKind = "mapping" =>
                 \A hostname \in DOMAIN group_data.hosts :
                    validate_host(hostname, group_data.hosts[hostname], group)

\* InventoryManager.validate: TRUE when no InventoryValidationError
validate(data) ==
    /\ data.hasAll
    /\ data.hasChildren
    /\ \A i \in DOMAIN RequiredGroups :
         LET group == RequiredGroups[i] IN
         /\ group \in DOMAIN data.children
         /\ LET group_data == data.children[group] IN
            /\ group_data.hostsKind # "other"
            /\ group_data.hostsKind = "mapping" =>
                 \A hostname \in DOMAIN group_data.hosts :
                    validate_host(hostname, group_data.hosts[hostname], group)

\* the nodes of one group, in the order of its hosts mapping
GroupNodes(children, group_name) ==
    IF group_name \notin DOMAIN children
       \/ children[group_name].hostsKind = "absent"
    THEN <<>>
    ELSE LET hosts == children[group_name].hosts
             order == SetToSeq(DOMAIN hosts)
         IN [i \in DOMAIN order |->
               from_inventory_dict(order[i],
                                   WithRole(hosts[order[i]], RoleOf(group_name)))]

\* get_nodes that lists the workers before the control plane
get_nodes_WorkersFirst(f, group) ==
    LET r == read(f) IN
    IF r.err # "" THEN [err |-> r.err, nodes |-> <<>>]
    ELSE IF ~validate(r.data) THEN [err |-> "ValidationError", nodes |-> <<>>]
    ELSE LET children == r.data.children IN
         [err |-> "",
          nodes |-> IF group # None THEN GroupNodes(children, group[1])
                    ELSE GroupNodes(children, "workers")
                         \o GroupNodes(children, "control_plane")]

\* InventoryManager.get_nodes(group): [err, nodes]; group is None or <<name>>
get_nodes(f, group) ==
    LET r == read(f) IN
    IF r.err # "" THEN [err |-> r.err, nodes |-> <<>>]
    ELSE IF ~validate(r.data) THEN [err |-> "ValidationError", nodes |-> <<>>]
    ELSE LET children == r.data.children IN
         [err |-> "",
          nodes |-> IF group # None THEN GroupNodes(children, group[1])
                    ELSE GroupNodes(children, "control_plane")
                         \o GroupNodes(children, "workers")]

Range(s) == {s[i] : i \in DOMAIN s}

----------------------------------------------------------------------------
(* inventory.py: host operations.  Each returns [err, data]: err is "" and *)
(* data the tree handed to write, or err names the exception and nothing   *)
(* is written.  The labels follow the error taxonomy: the InventoryError   *)
(* "already exists" is DuplicateHostname, "already in use" is              *)
(* DuplicateAddress, "not found in inventory" is NotFound (a node) or      *)
(* InvalidScope (a scope).                                                 *)

Fail(e) == [err |-> e, data |-> NoDoc, writes |-> <<>>]

Done(d) == [err |-> "", data |-> d, writes |-> <<d>>]

\* InsertHost that starts a new hosts mapping every time
InsertHost_Reset(children, group, hostname, entry) ==
    LET c1 == IF group \in DOMAIN children THEN children
              ELSE Put(children, group, NewGroup)
        g1 == [c1[group] EXCEPT !.hostsKind = "mapping", !.hosts = EmptyMap]
    IN Put(c1, group, [g1 EXCEPT !.hosts = Put(g1.hosts, hostname, entry)])

\* InsertHost that rebuilds the group with its hosts only
InsertHost_DropVars(children, group, hostname, entry) ==
    LET c1 == IF group \in DOMAIN children THEN children
              ELSE Put(children, group, NewGroup)
        g1 == IF c1[group].hostsKind = "absent"
              THEN [c1[group] EXCEPT !.hostsKind = "mapping", !.hosts = EmptyMap]
              ELSE c1[group]
    IN Put(c1, group, [g1 EXCEPT !.hosts = Put(g1.hosts, hostname, entry),
                                 !.hasVars = FALSE, !.vars = EmptyMap])

\* children[group]["hosts"], created when absent, with one entry assigned
InsertHost(children, group, hostname, entry) ==
    LET c1 == IF group \in DOMAIN children THEN children
              ELSE Put(children, group, NewGroup)
        g1 == IF c1[group].hostsKind = "absent"
              THEN [c1[group] EXCEPT !.hostsKind = "mapping", !.hosts = EmptyMap]
              ELSE c1[group]
    IN Put(c1, group, [g1 EXCEPT !.hosts = Put(g1.hosts, hostname, entry)])

\* group in children and "hosts" in children[group] and hostname in hosts
HoldsHost(children, group, hostname) ==
    /\ group \in DOMAIN children
    /\ children[group].hostsKind # "absent"
    /\ hostname \in DOMAIN children[group].hosts

\* the first of control_plane, workers that holds hostname, or None
FindGroup(children, hostname) ==
    IF HoldsHost(children, "control_plane", hostname) THEN Some("control_plane")
    ELSE IF HoldsHost(children, "workers", hostname) THEN Some("workers")
    ELSE None

\* add_node without the check for an existing hostname
add_node_on_NoHostnameCheck(data, existing, node) ==
    IF existing.err # "" THEN Fail(existing.err)
    ELSE IF \E i \in DOMAIN existing.nodes :
               existing.nodes[i].tailscale_ip = node.tailscale_ip
         THEN Fail("DuplicateAddress")
    ELSE Done([data EXCEPT !.children =
                 InsertHost(data.children, GroupOf(node.role), node.hostname,
                            to_inventory_dict(node))])

\* add_node without the check for an address in use
add_node_on_NoAddrCheck(data, existing, node) ==
    IF existing.err # "" THEN Fail(existing.err)
    ELSE IF \E i \in DOMAIN existing.nodes : existing.nodes[i].hostname = node.hostname
         THEN Fail("DuplicateHostname")
    ELSE Done([data EXCEPT !.children =
                 InsertHost(data.children, GroupOf(node.role), node.hostname,
                            to_inventory_dict(node))])

\* add_node that gives every required group a hosts mapping before inserting
add_node_on_BothGroups(data, existing, node) ==
    IF existing.err # "" THEN Fail(existing.err)
    ELSE IF \E i \in DOMAIN existing.nodes : existing.nodes[i].hostname = node.hostname
         THEN Fail("DuplicateHostname")
    ELSE IF \E i \in DOMAIN existing.nodes :
               existing.nodes[i].tailscale_ip = node.tailscale_ip
         THEN Fail("DuplicateAddress")
    ELSE LET filled == [g \in DOMAIN data.children |->
                          IF g \in {"control_plane", "workers"}
                             /\ data.children[g].hostsKind = "absent"
                          THEN [data.children[g] EXCEPT !.hostsKind = "mapping",
                                                        !.hosts = EmptyMap]
                          ELSE data.children[g]]
         IN Done([data EXCEPT !.children =
                    InsertHost(filled, GroupOf(node.role), node.hostname,
                               to_inventory_dict(node))])

\* InventoryManager.add_node; existing is the result of self.get_nodes()
add_node_on(data, existing, node) ==
    IF existing.err # "" THEN Fail(existing.err)
    ELSE IF \E i \in DOMAIN existing.nodes : existing.nodes[i].hostname = node.hostname
         THEN Fail("DuplicateHostname")
    ELSE IF \E i \in DOMAIN existing.nodes :
               existing.nodes[i].tailscale_ip = node.tailscale_ip
         THEN Fail("DuplicateAddress")
    ELSE Done([data EXCEPT !.children =
                 InsertHost(data.children, GroupOf(node.role), node.hostname,
                            to_inventory_dict(node))])

add_node(f, node) ==
    LET r == read(f) IN
    IF r.err # "" THEN Fail(r.err)
    ELSE IF ~validate(r.data) THEN Fail("ValidationError")
    ELSE add_node_on(r.data, get_nodes(f, None), node)

\* remove_node that writes the document back when the hostname is not found
remove_node_Silent(f, hostname) ==
    LET r == read(f) IN
    IF r.err # "" THEN Fail(r.err)
    ELSE IF ~validate(r.data) THEN Fail("ValidationError")
    ELSE LET children == r.data.children
             found == FindGroup(children, hostname)
         IN IF found = None THEN Done(r.data)
            ELSE LET group == found[1] IN
                 Done([r.data EXCEPT !.children[group].hosts =
                         Del(children[group].hosts, hostname)])

\* remove_node that deletes the hostname from every group that holds it
remove_node_BothGroups(f, hostname) ==
    LET r == read(f) IN
    IF r.err # "" THEN Fail(r.err)
    ELSE IF ~validate(r.data) THEN Fail("ValidationError")
    ELSE LET children == r.data.children IN
         IF FindGroup(children, hostname) = None THEN Fail("NotFound")
         ELSE Done([r.data EXCEPT !.children =
                      [g \in DOMAIN children |->
                         IF HoldsHost(children, g, hostname)
                         THEN [children[g] EXCEPT !.hosts = Del(@, hostname)]
                         ELSE children[g]]])

\* InventoryManager.remove_node
remove_node(f, hostname) ==
    LET r == read(f) IN
    IF r.err # "" THEN Fail(r.err)
    ELSE IF ~validate(r.data) THEN Fail("ValidationError")
    ELSE LET children == r.data.children
             found == FindGroup(children, hostname)
         IN IF found = None THEN Fail("NotFound")
            ELSE LET group == found[1] IN
                 Done([r.data EXCEPT !.children[group].hosts =
                         Del(children[group].hosts, hostname)])

\* update_node that inserts into the new group without leaving the old one
update_node_NoDelete(f, node) ==
    LET r == read(f) IN
    IF r.err # "" THEN Fail(r.err)
    ELSE IF ~validate(r.data) THEN Fail("ValidationError")
    ELSE LET children == r.data.children
             found == FindGroup(children, node.hostname)
         IN IF found = None THEN Fail("NotFound")
            ELSE Done([r.data EXCEPT !.children =
                         InsertHost(children, GroupOf(node.role),
                                    node.hostname, to_inventory_dict(node))])

\* update_node that writes after the deletion and again after the insertion
update_node_TwoWrites(f, node) ==
    LET r == read(f) IN
    IF r.err # "" THEN Fail(r.err)
    ELSE IF ~validate(r.data) THEN Fail("ValidationError")
    ELSE LET children == r.data.children
             found == FindGroup(children, node.hostname)
         IN IF found = None THEN Fail("NotFound")
            ELSE LET group == found[1]
                     current_role == RoleOf(group)
                 IN IF current_role # node.role
                    THEN LET removed == [children EXCEPT ![group].hosts =
                                            Del(children[group].hosts, node.hostname)]
                             moved == [r.data EXCEPT !.children =
                                         InsertHost(removed, GroupOf(node.role),
                                                    node.hostname,
                                                    to_inventory_dict(node))]
                         IN [err |-> "", data |-> moved,
                             writes |-> <<[r.data EXCEPT !.children = removed],
                                          moved>>]
                    ELSE Done([r.data EXCEPT !.children[group].hosts =
                                 Put(children[group].hosts, node.hostname,
                                     to_inventory_dict(node))])

\* update_node that adds the host when it is stored in neither group
update_node_Upsert(f, node) ==
    LET r == read(f) IN
    IF r.err # "" THEN Fail(r.err)
    ELSE IF ~validate(r.data) THEN Fail("ValidationError")
    ELSE LET children == r.data.children
             found == FindGroup(children, node.hostname)
             removed == IF found = None THEN children
                        ELSE [children EXCEPT ![found[1]].hosts =
                                 Del(children[found[1]].hosts, node.hostname)]
         IN Done([r.data EXCEPT !.children =
                    InsertHost(removed, GroupOf(node.role), node.hostname,
                               to_inventory_dict(node))])

\* an update_node that lays the new fields over the entry found
update_node_Merge(f, node) ==
    LET r == read(f) IN
    IF r.err # "" THEN Fail(r.err)
    ELSE IF ~validate(r.data) THEN Fail("ValidationError")
    ELSE LET children == r.data.children
             found == FindGroup(children, node.hostname)
         IN IF found = None THEN Fail("NotFound")
            ELSE LET group == found[1]
                     merged == to_inventory_dict(node)
                               @@ children[group].hosts[node.hostname]
                     removed == [children EXCEPT ![group].hosts =
                                    Del(children[group].hosts, node.hostname)]
                 IN Done([r.data EXCEPT !.children =
                            InsertHost(removed, GroupOf(node.role),
                                       node.hostname, merged)])

\* InventoryManager.update_node
update_node(f, node) ==
    LET r == read(f) IN
    IF r.err # "" THEN Fail(r.err)
    ELSE IF ~validate(r.data) THEN Fail("ValidationError")
    ELSE LET children == r.data.children
             found == FindGroup(children, node.hostname)
         IN IF found = None THEN Fail("NotFound")
            ELSE LET group == found[1]
                     current_role == RoleOf(group)
                 IN IF current_role # node.role
                    THEN LET removed == [children EXCEPT ![group].hosts =
                                            Del(children[group].hosts, node.hostname)]
                         IN Done([r.data EXCEPT !.children =
                                    InsertHost(removed, GroupOf(node.role),
                                               node.hostname, to_inventory_dict(node))])
                    ELSE Done([r.data EXCEPT !.children[group].hosts =
                                 Put(children[group].hosts, node.hostname,
                                     to_inventory_dict(node))])

----------------------------------------------------------------------------
(* inventory.py: scoped variables *)

\* InventoryManager.get_vars: [err, vars]
get_vars(f, scope) ==
    LET r == read(f) IN
    IF r.err # "" THEN [err |-> r.err, vars |-> EmptyMap]
    ELSE IF scope = "all"
         THEN [err |-> "", vars |-> r.data.vars]
         ELSE IF scope \notin DOMAIN r.data.children
              THEN [err |-> "InvalidScope", vars |-> EmptyMap]
              ELSE [err |-> "", vars |-> r.data.children[scope].vars]

\* set_var that also sets the key globally when a group scope is given
set_var_Global(f, key, value, scope) ==
    LET r == read(f) IN
    IF r.err # "" THEN Fail(r.err)
    ELSE IF ~r.data.hasAll THEN Fail("KeyError")
    ELSE LET d == [r.data EXCEPT !.hasVars = TRUE,
                                 !.vars = Put(r.data.vars, key, value)]
         IN IF scope = "all" THEN Done(d)
            ELSE IF ~r.data.hasChildren THEN Fail("KeyError")
            ELSE IF scope \notin DOMAIN r.data.children THEN Fail("InvalidScope")
            ELSE Done([d EXCEPT
                         !.children[scope].hasVars = TRUE,
                         !.children[scope].vars =
                             Put(r.data.children[scope].vars, key, value)])

\* set_var that keeps the value of a key that is already set (setdefault)
set_var_SetDefault(f, key, value, scope) ==
    LET r == read(f) IN
    IF r.err # "" THEN Fail(r.err)
    ELSE IF scope = "all"
         THEN IF ~r.data.hasAll THEN Fail("KeyError")
              ELSE Done([r.data EXCEPT !.hasVars = TRUE,
                                       !.vars = r.data.vars @@ (key :> value)])
         ELSE IF ~r.data.hasAll \/ ~r.data.hasChildren THEN Fail("KeyError")
         ELSE IF scope \notin DOMAIN r.data.children THEN Fail("InvalidScope")
         ELSE Done([r.data EXCEPT
                      !.children[scope].hasVars = TRUE,
                      !.children[scope].vars =
                          r.data.children[scope].vars @@ (key :> value)])

\* InventoryManager.set_var
set_var(f, key, value, scope) ==
    LET r == read(f) IN
    IF r.err # "" THEN Fail(r.err)
    ELSE IF scope = "all"
         THEN IF ~r.data.hasAll THEN Fail("KeyError")
              ELSE Done([r.data EXCEPT !.hasVars = TRUE,
                                       !.vars = Put(r.data.vars, key, value)])
         ELSE IF ~r.data.hasAll \/ ~r.data.hasChildren THEN Fail("KeyError")
         ELSE IF scope \notin DOMAIN r.data.children THEN Fail("InvalidScope")
         ELSE Done([r.data EXCEPT
                      !.children[scope].hasVars = TRUE,
                      !.children[scope].vars =
                          Put(r.data.children[scope].vars, key, value)])

----------------------------------------------------------------------------
(* Inputs of the callers *)

SampleTaint == [key |-> "dedicated", value |-> "true", effect |-> "NoSchedule"]

\* a Node with only the required fields (tests: minimal_node)
MinimalNode(hostname, addr, role) ==
    [hostname |-> hostname, ansible_host |-> StrIP(addr), tailscale_ip |-> addr,
     role |-> role, reserved_cpu |-> None, reserved_memory |-> None,
     gpu |-> FALSE, node_labels |-> EmptyMap, node_taints |-> <<>>]

\* a Node with every optional field set (tests: full_node)
FullNode(hostname, addr, role) ==
    [MinimalNode(hostname, addr, role) EXCEPT
        !.ansible_host = "host.lan",
        !.reserved_cpu = Some("2"), !.reserved_memory = Some("4Gi"),
        !.gpu = TRUE, !.node_labels = [zone |-> "a"],
        !.node_taints = <<SampleTaint>>]

NodeInputs ==
    UNION {{MinimalNode(h, a, r), FullNode(h, a, r)} :
             <<h, a, r>> \in Hostnames \X Addrs \X Roles}

Keys == {"k3s_version"}

Values == {[kind |-> "str", text |-> "v1.28"], [kind |-> "str", text |-> "true"],
           [kind |-> "bool", text |-> "true"]}

ValidScopes == {"all", "control_plane", "workers"}

ScopeInputs == ValidScopes \cup {"gpu_nodes"}

----------------------------------------------------------------------------
(* Documents the file may hold when the first call is made.  No hostname   *)
(* occurs in both groups and no two hosts share an address: the store      *)
(* never writes such a document from one that has neither.                 *)

HostsGroup(hosts) ==
    [hostsKind |-> "mapping", hosts |-> hosts, hasVars |-> FALSE, vars |-> EmptyMap]

MkDoc(children) ==
    [hasAll |-> TRUE, hasChildren |-> TRUE, hasVars |-> FALSE, vars |-> EmptyMap,
     children |-> children]

\* control_plane and workers with empty hosts (tests: create_test_inventory)
EmptyInventory ==
    MkDoc([control_plane |-> HostsGroup(EmptyMap), workers |-> HostsGroup(EmptyMap)])

\* groups without a hosts key, vars present, and a further group
BareInventory ==
    [MkDoc([control_plane |-> [NewGroup EXCEPT !.hasVars = TRUE],
            workers |-> NewGroup,
            gpu_nodes |-> NewGroup])
     EXCEPT !.hasVars = TRUE,
            !.vars = [k3s_version |-> [kind |-> "str", text |-> "v1.28"]]]

\* one host in each group
PopulatedInventory ==
    MkDoc([control_plane |->
             HostsGroup("cp-1" :>
                          to_inventory_dict(MinimalNode("cp-1", "100.64.0.1",
                                                        "control-plane"))),
           workers |->
             HostsGroup("w-1" :>
                          to_inventory_dict(FullNode("w-1", "100.64.0.2",
                                                     "worker")))])

\* a hand-written entry: another spelling of the address, a role key that
\* contradicts the group, and a key the Node model does not know
HandWrittenInventory ==
    MkDoc([control_plane |-> HostsGroup(EmptyMap),
           workers |->
             HostsGroup("cp-1" :>
                          [ansible_host |-> "host.lan", tailscale_ip |-> "FD7A::1",
                           role |-> "control-plane", rack |-> "r1"])])

ValidDocs == {EmptyInventory, BareInventory, PopulatedInventory, HandWrittenInventory}

\* documents that validate rejects
InvalidDocs ==
    { \* no 'all'
      NoDoc,
      \* 'all' without 'children'
      [NoDoc EXCEPT !.hasAll = TRUE],
      \* a required group missing
      MkDoc([control_plane |-> HostsGroup(EmptyMap)]),
      \* hosts is not a mapping
      MkDoc([control_plane |-> HostsGroup(EmptyMap),
             workers |-> [NewGroup EXCEPT !.hostsKind = "other"]]),
      \* a host without tailscale_ip
      MkDoc([control_plane |-> HostsGroup(EmptyMap),
             workers |-> HostsGroup("cp-1" :> [ansible_host |-> "host.lan"])]),
      \* a host without ansible_host
      MkDoc([control_plane |-> HostsGroup("cp-1" :> [tailscale_ip |-> "100.64.0.1"]),
             workers |-> HostsGroup(EmptyMap)]),
      \* a host the Node model rejects
      MkDoc([control_plane |->
               HostsGroup("cp-1" :>
                            [ansible_host |-> "", tailscale_ip |-> "not-an-ip"]),
             workers |-> HostsGroup(EmptyMap)]) }

InitFiles ==
    {[state |-> "doc", doc |-> d] : d \in ValidDocs \cup InvalidDocs}
    \cup {Missing, [state |-> "empty", doc |-> NoDoc]}

----------------------------------------------------------------------------
(* The state machine: one action per public method of InventoryManager     *)

NoValue == [kind |-> "null", text |-> ""]

Call(op, err, node, hostname, scope, key, value) ==
    [op |-> op, err |-> err, node |-> node, hostname |-> hostname,
     scope |-> scope, key |-> key, value |-> value]

NoCall == Call("none", "", None, "", "", "", NoValue)

\* the round-trip specification is idle in the store's specification
RtIdle == [stage |-> "idle", node |-> None, data |-> EmptyMap, back |-> None]

\* no concurrent invocation is running
ConcIdle == [procs |-> <<>>, writers |-> <<>>]

\* no InventoryManager instance has made a call
InstIdle == [who |-> 0, seen |-> <<>>]

\* ClusterTUI.__init__: no refresh running, no state fetched yet, no error
\* ClusterTUI.__init__: the three fields of the refresh loop, with the
\* position inside refresh_data (pc), the result of _fetch_cluster_state
\* (fetched), the loading indicator, the state the widgets show, the
\* notifications of the call under way (notes), the last known state at its
\* start (before) and the record of the calls that returned (history)
TuiIdle ==
    [is_refreshing |-> FALSE, last_cluster_state |-> None,
     connection_error |-> FALSE, pc |-> "idle", fetched |-> None,
     loading |-> FALSE, shown |-> None, notes |-> <<>>, before |-> None,
     history |-> <<>>]

Init ==
    /\ file \in InitFiles
    /\ backup = Missing
    /\ last = NoCall
    /\ nops = 0
    /\ rt = RtIdle
    /\ conc = ConcIdle
    /\ io = "none"
    /\ inst = InstIdle
    /\ tui = TuiIdle

\* the file and the backup after self.write(d) for each d of docs in turn
RECURSIVE WriteAll(_, _, _)
WriteAll(f, b, docs) ==
    IF docs = <<>> THEN [file |-> f, backup |-> b]
    ELSE LET w == write(f, b, Head(docs)) IN WriteAll(w.file, w.backup, Tail(docs))

\* a mutating call: its writes on success, nothing otherwise
Commit(res) ==
    IF res.err = ""
    THEN LET w == WriteAll(file, backup, res.writes) IN
         /\ file' = w.file
         /\ backup' = w.backup
    ELSE UNCHANGED <<file, backup>>

AddHost(node) ==
    /\ nops < MaxOps
    /\ LET res == add_node(file, node) IN
       /\ Commit(res)
       /\ last' = Call("add", res.err, Some(node), node.hostname, "", "", NoValue)
    /\ nops' = nops + 1
    /\ UNCHANGED aux

RemoveHost(hostname) ==
    /\ nops < MaxOps
    /\ LET res == remove_node(file, hostname) IN
       /\ Commit(res)
       /\ last' = Call("remove", res.err, None, hostname, "", "", NoValue)
    /\ nops' = nops + 1
    /\ UNCHANGED aux

UpdateHost(node) ==
    /\ nops < MaxOps
    /\ LET res == update_node(file, node) IN
       /\ Commit(res)
       /\ last' = Call("update", res.err, Some(node), node.hostname, "", "", NoValue)
    /\ nops' = nops + 1
    /\ UNCHANGED aux

\* a get_nodes that writes the document back after reading it
ListHosts_Rewrites(group) ==
    /\ nops < MaxOps
    /\ LET res == get_nodes(file, group) IN
       /\ Commit(IF res.err = "" THEN Done(read(file).data) ELSE Fail(res.err))
       /\ last' = Call("list", res.err, None, "",
                       IF group = None THEN "" ELSE group[1], "", NoValue)
    /\ nops' = nops + 1
    /\ UNCHANGED aux

\* InventoryManager.get_nodes
ListHosts(group) ==
    /\ nops < MaxOps
    /\ last' = Call("list", get_nodes(file, group).err, None, "",
                    IF group = None THEN "" ELSE group[1], "", NoValue)
    /\ nops' = nops + 1
    /\ UNCHANGED <<file, backup, aux>>

GetVars(scope) ==
    /\ nops < MaxOps
    /\ last' = Call("get_vars", get_vars(file, scope).err, None, "", scope, "", NoValue)
    /\ nops' = nops + 1
    /\ UNCHANGED <<file, backup, aux>>

\* InventoryManager.validate on the document read from the file (the
\* caller's manager.validate(manager.read()))
Validate ==
    /\ nops < MaxOps
    /\ LET r == read(file)
           err == IF r.err # "" THEN r.err
                  ELSE IF ~validate(r.data) THEN "ValidationError" ELSE ""
       IN last' = Call("validate", err, None, "", "", "", NoValue)
    /\ nops' = nops + 1
    /\ UNCHANGED <<file, backup, aux>>

SetVar(key, value, scope) ==
    /\ nops < MaxOps
    /\ LET res == set_var(file, key, value, scope) IN
       /\ Commit(res)
       /\ last' = Call("set_var", res.err, None, "", scope, key, value)
    /\ nops' = nops + 1
    /\ UNCHANGED aux

Next ==
    \/ \E node \in NodeInputs : AddHost(node)
    \/ \E hostname \in Hostnames : RemoveHost(hostname)
    \/ \E node \in NodeInputs : UpdateHost(node)
    \/ \E group \in {None, Some("control_plane"), Some("workers")} : ListHosts(group)
    \/ \E scope \in ScopeInputs : GetVars(scope)
    \/ \E key \in Keys, value \in Values, scope \in ScopeInputs : SetVar(key, value, scope)
    \/ Validate

Spec == Init /\ [][Next]_vars

----------------------------------------------------------------------------
(* Node round trip: to_inventory_dict followed by from_inventory_dict,     *)
(* on every Node the model's field values can build                        *)

NodeCandidates ==
    [hostname : Hostnames \cup {"-bad"},
     ansible_host : {"host.lan", "100.64.0.1", ""},
     tailscale_ip : Addrs \cup {InvalidAddr},
     role : Roles \cup {"master"},
     reserved_cpu : {None, Some(""), Some("2")},
     reserved_memory : {None, Some(""), Some("4Gi")},
     gpu : BOOLEAN,
     node_labels : {EmptyMap, [zone |-> "a"]},
     node_taints : {<<>>, <<SampleTaint>>,
                    <<SampleTaint, [SampleTaint EXCEPT !.effect = "Never"]>>}]

\* the Nodes that construction accepts
ValidNodes == {n \in NodeCandidates : NodeValid(n)}

InitRT ==
    /\ file = Missing
    /\ backup = Missing
    /\ last = NoCall
    /\ nops = 0
    /\ conc = ConcIdle
    /\ io = "none"
    /\ inst = InstIdle
    /\ tui = TuiIdle
    /\ rt \in {[stage |-> "node", node |-> Some(n), data |-> EmptyMap, back |-> None] :
                 n \in ValidNodes}

\* node.to_inventory_dict()
ToStorage ==
    /\ rt.stage = "node"
    /\ rt' = [rt EXCEPT !.stage = "stored", !.data = to_inventory_dict(rt.node[1])]
    /\ UNCHANGED <<file, backup, last, nops, conc, io, inst, tui>>

\* Node.from_inventory_dict(node.hostname, inventory_dict)
FromStorage ==
    /\ rt.stage = "stored"
    /\ from_inventory_dict_ok(rt.node[1].hostname, rt.data)
    /\ rt' = [rt EXCEPT !.stage = "parsed",
                        !.back = Some(from_inventory_dict(rt.node[1].hostname, rt.data))]
    /\ UNCHANGED <<file, backup, last, nops, conc, io, inst, tui>>

\* Node.from_inventory_dict(node.hostname, {**inventory_dict, "role": node.role}),
\* the call of the store and of the tests
FromStorageWithRole ==
    /\ rt.stage = "stored"
    /\ from_inventory_dict_ok(rt.node[1].hostname, WithRole(rt.data, rt.node[1].role))
    /\ rt' = [rt EXCEPT !.stage = "parsed_with_role",
                        !.back = Some(from_inventory_dict(rt.node[1].hostname,
                                          WithRole(rt.data, rt.node[1].role)))]
    /\ UNCHANGED <<file, backup, last, nops, conc, io, inst, tui>>

\* the node goes through the store: add_node on an inventory with both
\* groups empty, then get_nodes; rt.data is the entry the file holds and
\* rt.back the node listed
AddAndList ==
    /\ rt.stage = "node"
    /\ LET node == rt.node[1]
           empty == [state |-> "doc", doc |-> EmptyInventory]
           res == add_node(empty, node)
           w == write(empty, backup, res.data)
           listed == get_nodes(w.file, None)
       IN /\ res.err = ""
          /\ listed.err = ""
          /\ file' = w.file
          /\ backup' = w.backup
          /\ rt' = [rt EXCEPT
                      !.stage = "listed",
                      !.data = w.file.doc.children[GroupOf(node.role)].hosts[node.hostname],
                      !.back = Some(listed.nodes[1])]
    /\ UNCHANGED <<last, nops, conc, io, inst, tui>>

NextRT == ToStorage \/ FromStorage \/ FromStorageWithRole \/ AddAndList

SpecRT == InitRT /\ [][NextRT]_vars

----------------------------------------------------------------------------
(* The mutating calls with a write step that can fail: the same methods,   *)
(* with every outcome of the file system calls of InventoryManager.write   *)

NodeInputsIO == {MinimalNode(h, a, r) : <<h, a, r>> \in Hostnames \X Addrs \X Roles}

ScopeInputsIO == {"all", "workers"}

ValueIO == [kind |-> "str", text |-> "v1.28"]

InitIO ==
    /\ file \in {Missing,
                 [state |-> "doc", doc |-> EmptyInventory],
                 [state |-> "doc", doc |-> PopulatedInventory]}
    /\ backup = Missing
    /\ last = NoCall
    /\ nops = 0
    /\ rt = RtIdle
    /\ conc = ConcIdle
    /\ io = "none"
    /\ inst = InstIdle
    /\ tui = TuiIdle

\* a mutating call: the write step is entered on success only, and ends as
\* outcome says; its error is the error of the call
CommitIO(res, outcome, call) ==
    IF res.err = ""
    THEN LET w == write_io(file, backup, res.data, outcome) IN
         /\ file' = w.file
         /\ backup' = w.backup
         /\ io' = w.stage
         /\ last' = [call EXCEPT !.err = w.err]
    ELSE /\ io' = "none"
         /\ last' = [call EXCEPT !.err = res.err]
         /\ UNCHANGED <<file, backup>>

AddHostIO(node, outcome) ==
    /\ nops < MaxOps
    /\ outcome \in WriteOutcomes(file)
    /\ CommitIO(add_node(file, node), outcome,
                Call("add", "", Some(node), node.hostname, "", "", NoValue))
    /\ nops' = nops + 1
    /\ UNCHANGED <<rt, conc, inst, tui>>

RemoveHostIO(hostname, outcome) ==
    /\ nops < MaxOps
    /\ outcome \in WriteOutcomes(file)
    /\ CommitIO(remove_node(file, hostname), outcome,
                Call("remove", "", None, hostname, "", "", NoValue))
    /\ nops' = nops + 1
    /\ UNCHANGED <<rt, conc, inst, tui>>

UpdateHostIO(node, outcome) ==
    /\ nops < MaxOps
    /\ outcome \in WriteOutcomes(file)
    /\ CommitIO(update_node(file, node), outcome,
                Call("update", "", Some(node), node.hostname, "", "", NoValue))
    /\ nops' = nops + 1
    /\ UNCHANGED <<rt, conc, inst, tui>>

SetVarIO(key, value, scope, outcome) ==
    /\ nops < MaxOps
    /\ outcome \in WriteOutcomes(file)
    /\ CommitIO(set_var(file, key, value, scope), outcome,
                Call("set_var", "", None, "", scope, key, value))
    /\ nops' = nops + 1
    /\ UNCHANGED <<rt, conc, inst, tui>>

AllOutcomes == WriteOutcomes(Missing) \cup WriteOutcomes(Truncated)

NextIO ==
    \/ \E node \in NodeInputsIO, outcome \in AllOutcomes : AddHostIO(node, outcome)
    \/ \E hostname \in Hostnames, outcome \in AllOutcomes :
          RemoveHostIO(hostname, outcome)
    \/ \E node \in NodeInputsIO, outcome \in AllOutcomes : UpdateHostIO(node, outcome)
    \/ \E key \in Keys, scope \in ScopeInputsIO, outcome \in AllOutcomes :
          SetVarIO(key, ValueIO, scope, outcome)

SpecIO == InitIO /\ [][NextIO]_vars

----------------------------------------------------------------------------
(* Two add_node invocations on the same path, without locking.  Each one   *)
(* makes three accesses to the file: read (the document it will mutate),   *)
(* get_nodes (a second read, for the duplicate checks) and write.          *)

Procs == {1, 2}

Proc(pc, node, snap, data, err) ==
    [pc |-> pc, node |-> node, snap |-> snap, data |-> data, err |-> err]

InitConc ==
    /\ file \in {[state |-> "doc", doc |-> EmptyInventory],
                 [state |-> "doc", doc |-> BareInventory]}
    /\ backup = Missing
    /\ last = NoCall
    /\ nops = 0
    /\ rt = RtIdle
    /\ io = "none"
    /\ inst = InstIdle
    /\ tui = TuiIdle
    /\ \E n1 \in NodeInputsIO, n2 \in NodeInputsIO :
          conc = [procs |-> <<Proc("start", n1, NoDoc, NoDoc, ""),
                             Proc("start", n2, NoDoc, NoDoc, "")>>,
                  writers |-> <<>>]

\* data = self.read(); self.validate(data)
ConcRead(p) ==
    /\ conc.procs[p].pc = "start"
    /\ LET r == read(file)
           err == IF r.err # "" THEN r.err
                  ELSE IF ~validate(r.data) THEN "ValidationError" ELSE ""
       IN conc' = [conc EXCEPT
                     !.procs[p].pc = IF err = "" THEN "read" ELSE "done",
                     !.procs[p].snap = r.data,
                     !.procs[p].data = r.data,
                     !.procs[p].err = err]
    /\ UNCHANGED <<file, backup, last, nops, rt, io, inst, tui>>

\* existing_nodes = self.get_nodes(), the two checks, and the insertion into
\* the document read before
ConcCheck(p) ==
    /\ conc.procs[p].pc = "read"
    /\ LET res == add_node_on(conc.procs[p].data, get_nodes(file, None),
                              conc.procs[p].node)
       IN conc' = [conc EXCEPT
                     !.procs[p].pc = IF res.err = "" THEN "checked" ELSE "done",
                     !.procs[p].data = res.data,
                     !.procs[p].err = res.err]
    /\ UNCHANGED <<file, backup, last, nops, rt, io, inst, tui>>

\* a write that inserts the host into the document the file holds now
ConcWrite_Merge(p) ==
    /\ conc.procs[p].pc = "checked"
    /\ LET node == conc.procs[p].node
           w == write(file, backup,
                      [file.doc EXCEPT !.children =
                         InsertHost(file.doc.children, GroupOf(node.role),
                                    node.hostname, to_inventory_dict(node))])
       IN /\ file' = w.file
          /\ backup' = w.backup
    /\ conc' = [conc EXCEPT !.procs[p].pc = "done",
                            !.writers = Append(@, p)]
    /\ UNCHANGED <<last, nops, rt, io, inst, tui>>

\* self.write(data)
ConcWrite(p) ==
    /\ conc.procs[p].pc = "checked"
    /\ LET w == write(file, backup, conc.procs[p].data) IN
       /\ file' = w.file
       /\ backup' = w.backup
    /\ conc' = [conc EXCEPT !.procs[p].pc = "done",
                            !.writers = Append(@, p)]
    /\ UNCHANGED <<last, nops, rt, io, inst, tui>>

NextConc ==
    \/ \E p \in Procs : ConcRead(p)
    \/ \E p \in Procs : ConcCheck(p)
    \/ \E p \in Procs : ConcWrite(p)

SpecConc == InitConc /\ [][NextConc]_vars

----------------------------------------------------------------------------
(* The same two add_node invocations next to a third invocation that       *)
(* removes hosts: a whole remove_node call of another process may fall     *)
(* between any two file accesses of an add_node.                           *)

\* one control-plane host and no worker
ControlPlaneInventory ==
    MkDoc([control_plane |->
             HostsGroup("cp-1" :>
                          to_inventory_dict(MinimalNode("cp-1", "100.64.0.1",
                                                        "control-plane"))),
           workers |-> HostsGroup(EmptyMap)])

InitRace ==
    /\ file \in {[state |-> "doc", doc |-> PopulatedInventory],
                 [state |-> "doc", doc |-> ControlPlaneInventory]}
    /\ backup = Missing
    /\ last = NoCall
    /\ nops = 0
    /\ rt = RtIdle
    /\ io = "none"
    /\ inst = InstIdle
    /\ tui = TuiIdle
    /\ \E n1 \in NodeInputsIO, n2 \in NodeInputsIO :
          conc = [procs |-> <<Proc("start", n1, NoDoc, NoDoc, ""),
                             Proc("start", n2, NoDoc, NoDoc, "")>>,
                  writers |-> <<>>]

\* remove_node(hostname) of another invocation, from its read to its write;
\* it is recorded as writer 0
ConcRemove(hostname) ==
    /\ LET res == remove_node(file, hostname) IN
       /\ res.err = ""
       /\ LET w == write(file, backup, res.data) IN
          /\ file' = w.file
          /\ backup' = w.backup
    /\ conc' = [conc EXCEPT !.writers = Append(@, 0)]
    /\ UNCHANGED <<last, nops, rt, io, inst, tui>>

NextRace ==
    \/ \E p \in Procs : ConcRead(p)
    \/ \E p \in Procs : ConcCheck(p)
    \/ \E p \in Procs : ConcWrite(p)
    \/ \E hostname \in Hostnames : ConcRemove(hostname)

SpecRace == InitRace /\ [][NextRace]_vars

----------------------------------------------------------------------------
(* The store on hand-edited documents: validate compares no hostname       *)
(* across groups, so a file that lists one hostname under both groups is   *)
(* read and validated like any other.                                      *)

ScopedVars(text) == [k3s_version |-> [kind |-> "str", text |-> text]]

\* cp-1 under both groups, w-1 under workers, vars in all three scopes
DuplicateInventory ==
    [MkDoc([control_plane |->
              [HostsGroup("cp-1" :>
                            to_inventory_dict(MinimalNode("cp-1", "100.64.0.1",
                                                          "control-plane")))
               EXCEPT !.hasVars = TRUE, !.vars = ScopedVars("v1.29")],
            workers |->
              [HostsGroup(("cp-1" :>
                             [ansible_host |-> "host.lan",
                              tailscale_ip |-> "100.64.0.2"])
                          @@ ("w-1" :>
                                to_inventory_dict(FullNode("w-1", "fd7a::1",
                                                           "worker"))))
               EXCEPT !.hasVars = TRUE, !.vars = ScopedVars("v1.30")]])
     EXCEPT !.hasVars = TRUE, !.vars = ScopedVars("v1.28")]

InitDup ==
    /\ file \in {[state |-> "doc", doc |-> d] :
                   d \in {DuplicateInventory, PopulatedInventory, BareInventory}}
    /\ backup = Missing
    /\ last = NoCall
    /\ nops = 0
    /\ rt = RtIdle
    /\ conc = ConcIdle
    /\ io = "none"
    /\ inst = InstIdle
    /\ tui = TuiIdle

SpecDup == InitDup /\ [][Next]_vars

----------------------------------------------------------------------------
(* Several InventoryManager instances on one path, their calls one after   *)
(* the other.  An instance holds inventory_path and a YAML object; the     *)
(* document a call reads is a local of that call.  inst.seen records, for  *)
(* each instance, the document its latest call read.                       *)

MaxInstOps == 3

Instances == {1, 2}

NodeInputsInst ==
    {MinimalNode(h, IF h = "cp-1" THEN "100.64.0.1" ELSE "fd7a::1", r) :
       <<h, r>> \in Hostnames \X Roles}

\* a read that serves the document the instance read in an earlier call
Opened_Cached(seen, f) ==
    IF seen = None THEN f ELSE [state |-> "doc", doc |-> seen[1]]

\* what self.read() of an instance opens: the file at inventory_path, whatever
\* the instance read before
Opened(seen, f) == f

InitInst ==
    /\ file \in {[state |-> "doc", doc |-> d] :
                   d \in {PopulatedInventory, BareInventory, DuplicateInventory}}
    /\ backup = Missing
    /\ last = NoCall
    /\ nops = 0
    /\ rt = RtIdle
    /\ conc = ConcIdle
    /\ io = "none"
    /\ inst = [who |-> 0, seen |-> [i \in Instances |-> None],
               prev |-> None, result |-> <<>>]
    /\ tui = TuiIdle

\* bookkeeping of a call of instance i that opened f and returned nodes
InstCalled(i, f, nodes) ==
    inst' = [who |-> i,
             seen |-> [inst.seen EXCEPT ![i] = IF read(f).err = "" THEN Some(read(f).data)
                                               ELSE None],
             prev |-> inst.seen[i],
             result |-> nodes]

InstAdd(i, node) ==
    /\ nops < MaxInstOps
    /\ LET f == Opened(inst.seen[i], file)
           res == add_node(f, node)
       IN /\ Commit(res)
          /\ last' = Call("add", res.err, Some(node), node.hostname, "", "", NoValue)
          /\ InstCalled(i, f, <<>>)
    /\ nops' = nops + 1
    /\ UNCHANGED <<rt, conc, io, tui>>

InstRemove(i, hostname) ==
    /\ nops < MaxInstOps
    /\ LET f == Opened(inst.seen[i], file)
           res == remove_node(f, hostname)
       IN /\ Commit(res)
          /\ last' = Call("remove", res.err, None, hostname, "", "", NoValue)
          /\ InstCalled(i, f, <<>>)
    /\ nops' = nops + 1
    /\ UNCHANGED <<rt, conc, io, tui>>

InstUpdate(i, node) ==
    /\ nops < MaxInstOps
    /\ LET f == Opened(inst.seen[i], file)
           res == update_node(f, node)
       IN /\ Commit(res)
          /\ last' = Call("update", res.err, Some(node), node.hostname, "", "", NoValue)
          /\ InstCalled(i, f, <<>>)
    /\ nops' = nops + 1
    /\ UNCHANGED <<rt, conc, io, tui>>

InstList(i, group) ==
    /\ nops < MaxInstOps
    /\ LET f == Opened(inst.seen[i], file)
           res == get_nodes(f, group)
       IN /\ last' = Call("list", res.err, None, "",
                          IF group = None THEN "" ELSE group[1], "", NoValue)
          /\ InstCalled(i, f, res.nodes)
    /\ nops' = nops + 1
    /\ UNCHANGED <<file, backup, rt, conc, io, tui>>

NextInst ==
    \/ \E i \in Instances, node \in NodeInputsInst : InstAdd(i, node)
    \/ \E i \in Instances, hostname \in Hostnames : InstRemove(i, hostname)
    \/ \E i \in Instances, node \in NodeInputsInst : InstUpdate(i, node)
    \/ \E i \in Instances, group \in {None, Some("control_plane"), Some("workers")} :
          InstList(i, group)

SpecInst == InitInst /\ [][NextInst]_vars

----------------------------------------------------------------------------
(* cli.py: config_set, the caller of get_vars and set_var for dotted keys  *)

\* key.split(".")
Split(key) ==
    CASE key = "k3s.version"       -> <<"k3s", "version">>
      [] key = "k3s.version.patch" -> <<"k3s", "version", "patch">>
      [] key = "k3s.channel"       -> <<"k3s", "channel">>
      [] key = "k3s_version.minor" -> <<"k3s_version", "minor">>
      [] OTHER                     -> <<key>>

KeyInputs == {"k3s.version", "k3s.version.patch", "k3s.channel",
              "k3s_version.minor", "cluster_name"}

\* the value argument and --type; parsing gives [err, value]
ValueInputs == {<<"v1.28", "string">>, <<"true", "bool">>, <<"v1.28", "bool">>}

ParseValue(value, value_type) ==
    CASE value_type = "bool" ->
           IF value \in {"true", "1", "yes", "on", "false", "0", "no", "off"}
           THEN [err |-> "",
                 value |-> [kind |-> "bool",
                            text |-> IF value \in {"true", "1", "yes", "on"}
                                     THEN "true" ELSE "false"]]
           ELSE [err |-> "InvalidValue", value |-> NoValue]
      [] value_type = "string" -> [err |-> "", value |-> [kind |-> "str", text |-> value]]
      [] OTHER -> [err |-> "InvalidType", value |-> NoValue]

\* the loop over keys[:-1] and the assignment of the leaf, on the mapping m:
\* [ok, tree]; ok is FALSE when a segment holds a value that is not a mapping
RECURSIVE SetPath(_, _, _)
SetPath(m, keys, value) ==
    IF Len(keys) = 1 THEN [ok |-> TRUE, tree |-> Put(m, keys[1], value)]
    ELSE LET k == Head(keys) IN
         IF k \notin DOMAIN m
         THEN [ok |-> TRUE,
               tree |-> Put(m, k, MapValue(SetPath(EmptyMap, Tail(keys), value).tree))]
         ELSE IF m[k].kind # "map" THEN [ok |-> FALSE, tree |-> m]
         ELSE LET sub == SetPath(m[k].items, Tail(keys), value) IN
              [ok |-> sub.ok, tree |-> Put(m, k, MapValue(sub.tree))]

\* config_set that sets the top-level key to the new branch only
config_set_Replace(f, key, value, value_type, scope) ==
    LET parsed == ParseValue(value, value_type)
        keys == Split(key)
    IN IF scope \notin ValidScopes THEN Fail("InvalidScope")
       ELSE IF parsed.err # "" THEN Fail(parsed.err)
       ELSE IF Len(keys) = 1 THEN set_var(f, key, parsed.value, scope)
       ELSE LET vars_dict == get_vars(f, scope) IN
            IF vars_dict.err # "" THEN Fail(vars_dict.err)
            ELSE LET set == SetPath(vars_dict.vars, keys, parsed.value) IN
                 IF ~set.ok THEN Fail("NotAMapping")
                 ELSE set_var(f, keys[1],
                              SetPath(EmptyMap, keys, parsed.value).tree[keys[1]], scope)

\* cli.config_set
config_set(f, key, value, value_type, scope) ==
    LET parsed == ParseValue(value, value_type)
        keys == Split(key)
    IN IF scope \notin ValidScopes THEN Fail("InvalidScope")
       ELSE IF parsed.err # "" THEN Fail(parsed.err)
       ELSE IF Len(keys) = 1 THEN set_var(f, key, parsed.value, scope)
       ELSE LET vars_dict == get_vars(f, scope) IN
            IF vars_dict.err # "" THEN Fail(vars_dict.err)
            ELSE LET set == SetPath(vars_dict.vars, keys, parsed.value) IN
                 IF ~set.ok THEN Fail("NotAMapping")
                 ELSE set_var(f, keys[1], set.tree[keys[1]], scope)

\* the inventory of the test: empty vars in every scope
TestInventory ==
    [MkDoc([control_plane |-> [HostsGroup(EmptyMap) EXCEPT !.hasVars = TRUE],
            workers |-> [HostsGroup(EmptyMap) EXCEPT !.hasVars = TRUE]])
     EXCEPT !.hasVars = TRUE]

\* nested variables under all, none under the groups
NestedInventory ==
    [MkDoc([control_plane |-> HostsGroup(EmptyMap),
            workers |-> HostsGroup(EmptyMap)])
     EXCEPT !.hasVars = TRUE,
            !.vars = [k3s |-> MapValue([version |-> [kind |-> "str", text |-> "v1.27"],
                                        channel |-> [kind |-> "str", text |-> "stable"]]),
                      k3s_version |-> [kind |-> "str", text |-> "v1.27"],
                      owner |-> [kind |-> "str", text |-> "ops"]]]

InitCfg ==
    /\ file \in {[state |-> "doc", doc |-> d] :
                   d \in {TestInventory, NestedInventory, BareInventory}}
    /\ backup = Missing
    /\ last = NoCall
    /\ nops = 0
    /\ rt = RtIdle
    /\ conc = ConcIdle
    /\ io = "none"
    /\ inst = InstIdle
    /\ tui = TuiIdle

ConfigSet(key, value, value_type, scope) ==
    /\ nops < MaxOps
    /\ LET res == config_set(file, key, value, value_type, scope) IN
       /\ Commit(res)
       /\ last' = Call("config_set", res.err, None, "", scope, key,
                       ParseValue(value, value_type).value)
    /\ nops' = nops + 1
    /\ UNCHANGED aux

ScopeInputsCfg == {"all", "workers", "gpu_nodes"}

NextCfg ==
    \/ \E key \in KeyInputs, v \in ValueInputs, scope \in ScopeInputsCfg :
          ConfigSet(key, v[1], v[2], scope)
    \/ \E scope \in ScopeInputsCfg : GetVars(scope)

SpecCfg == InitCfg /\ [][NextCfg]_vars

----------------------------------------------------------------------------
(* tui/app.py: the refresh loop of ClusterTUI.  refresh_data is            *)
(* synchronous and is called from on_mount, action_refresh and the timer   *)
(* callback, all on the application's one thread: a call runs to its       *)
(* return before the next begins.  Its steps are separate actions, so that *)
(* the states inside a call are states of the model.                       *)

MaxRefreshes == 3

ClusterStates == {"s1", "s2"}

\* what _fetch_cluster_state does: a ClusterState; None after a connection
\* failure, a timeout or without an api client; None after its own
\* notification (PermissionError, FileNotFoundError); or an exception that
\* leaves the try block of refresh_data before cluster_state is bound
FetchOutcomes ==
    {[kind |-> "state", state |-> s] : s \in ClusterStates}
    \cup {[kind |-> k, state |-> ""] : k \in {"none", "denied", "nofile", "raise"}}

\* self.notify(..., title=title)
Notify(t, title) == [t EXCEPT !.notes = Append(@, title)]

\* a handler that notifies on every failure
handle_connection_error_Always(t) ==
    Notify([t EXCEPT !.connection_error = TRUE], "Connection Error")

\* ClusterTUI._handle_connection_error
handle_connection_error(t) ==
    IF ~t.connection_error
    THEN Notify([t EXCEPT !.connection_error = TRUE], "Connection Error")
    ELSE t

\* ClusterTUI._show_loading
show_loading(t, show) == [t EXCEPT !.loading = show]

\* ClusterTUI._update_display
update_display(t, cluster_state) == [t EXCEPT !.shown = Some(cluster_state)]

\* ClusterTUI._fetch_cluster_state: the value handed back and the
\* notification it raises itself
fetch_cluster_state(t, outcome) ==
    LET t1 == [t EXCEPT !.fetched = Some(outcome)] IN
    IF outcome.kind = "denied" THEN Notify(t1, "Permission Error")
    ELSE IF outcome.kind = "nofile" THEN Notify(t1, "Configuration Error")
    ELSE t1

\* the branches of refresh_data after the fetch
after_fetch(t) ==
    LET outcome == t.fetched[1] IN
    IF outcome.kind = "state"
    THEN LET t1 == [update_display(t, outcome.state)
                    EXCEPT !.last_cluster_state = Some(outcome.state)]
         IN IF t1.connection_error
            THEN Notify([t1 EXCEPT !.connection_error = FALSE], "Connection restored")
            ELSE t1
    ELSE handle_connection_error(t)

InitTui ==
    /\ file = Missing
    /\ backup = Missing
    /\ last = NoCall
    /\ nops = 0
    /\ rt = RtIdle
    /\ conc = ConcIdle
    /\ io = "none"
    /\ inst = InstIdle
    /\ tui = TuiIdle

\* refresh_data up to the try: the skip when a refresh is in progress, the
\* flag, the loading indicator
RefreshBegin ==
    /\ tui.pc = "idle"
    /\ Len(tui.history) < MaxRefreshes
    /\ tui' = IF tui.is_refreshing THEN tui
              ELSE show_loading([tui EXCEPT !.is_refreshing = TRUE,
                                            !.pc = "try",
                                            !.notes = <<>>,
                                            !.before = tui.last_cluster_state],
                                TRUE)
    /\ UNCHANGED <<file, backup, last, nops, rt, conc, io, inst>>

\* cluster_state = self._fetch_cluster_state()
RefreshFetch(outcome) ==
    /\ tui.pc = "try"
    /\ tui' = [fetch_cluster_state(tui, outcome) EXCEPT !.pc = "fetched"]
    /\ UNCHANGED <<file, backup, last, nops, rt, conc, io, inst>>

\* the if/else on cluster_state, or the except clause
RefreshHandle ==
    /\ tui.pc = "fetched"
    /\ tui' = [after_fetch(tui) EXCEPT !.pc = "finally"]
    /\ UNCHANGED <<file, backup, last, nops, rt, conc, io, inst>>

\* the finally clause, and the return
RefreshReturn ==
    /\ tui.pc = "finally"
    /\ tui' = [show_loading(tui, FALSE) EXCEPT
                 !.is_refreshing = FALSE,
                 !.pc = "idle",
                 !.fetched = None,
                 !.history = Append(@, [kind |-> tui.fetched[1].kind,
                                        notes |-> tui.notes,
                                        before |-> tui.before,
                                        after |-> tui.last_cluster_state])]
    /\ UNCHANGED <<file, backup, last, nops, rt, conc, io, inst>>

NextTui ==
    \/ RefreshBegin
    \/ \E outcome \in FetchOutcomes : RefreshFetch(outcome)
    \/ RefreshHandle
    \/ RefreshReturn

SpecTui == InitTui /\ [][NextTui]_vars

----------------------------------------------------------------------------
(* Vocabulary of the properties *)

\* the hosts mapping of a group of a document (empty when there is none)
HostsOf(doc, group) ==
    IF group \in DOMAIN doc.children /\ doc.children[group].hostsKind = "mapping"
    THEN doc.children[group].hosts
    ELSE EmptyMap

\* hostname is stored under group
StoredIn(doc, group, hostname) == hostname \in DOMAIN HostsOf(doc, group)

\* hostname is stored under control_plane or workers
Stored(doc, hostname) ==
    StoredIn(doc, "control_plane", hostname) \/ StoredIn(doc, "workers", hostname)

\* the (group, hostname) places of the entries that carry a tailscale_ip
AddrPlaces(doc) ==
    {<<g, h>> \in {"control_plane", "workers"} \X Hostnames :
        StoredIn(doc, g, h) /\ "tailscale_ip" \in DOMAIN HostsOf(doc, g)[h]}

\* the tailscale_ip text stored at a place
AddrAt(doc, place) == HostsOf(doc, place[1])[place[2]]["tailscale_ip"]

\* a call was made in this step
Called(op) == nops' = nops + 1 /\ last'.op = op

\* the file holds a document that validate accepts
ValidFile(f) == f.state = "doc" /\ validate(f.doc)

\* what listHosts() returns, as a set
Listed(f) == Range(get_nodes(f, None).nodes)

----------------------------------------------------------------------------
(* C1: every hostname occurs at most once across control_plane and workers *)
(* after any sequence of successful addHost, removeHost, updateHost and    *)
(* setVar calls on a document where that held.                             *)
C1_HostnameUnique ==
    file.state = "doc" =>
        DOMAIN HostsOf(file.doc, "control_plane")
            \cap DOMAIN HostsOf(file.doc, "workers") = {}

\* a role-changing update has moved a host next to another one
C1_Witness ==
    /\ last.op = "update" /\ last.err = ""
    /\ backup.state = "doc"
    /\ StoredIn(backup.doc, "workers", last.hostname)
    /\ StoredIn(file.doc, "control_plane", last.hostname)
    /\ Cardinality(DOMAIN HostsOf(file.doc, "control_plane")) = 2

(* C2: all tailscale_ip values across both groups stay pairwise distinct   *)
(* after any sequence of successful addHost, removeHost, updateHost and    *)
(* setVar calls, updateHost calls that change an address included.         *)
C2_AddrUnique ==
    file.state = "doc" =>
        \A p, q \in AddrPlaces(file.doc) :
            AddrAt(file.doc, p) = AddrAt(file.doc, q) => p = q

(* C3: a host added with a role is stored under the group of that role and *)
(* not under the other one; after a successful updateHost the hostname is  *)
(* under exactly the group of the new role.                                *)
C3_GroupMatchesRole ==
    (last.op \in {"add", "update"} /\ last.err = "") =>
        LET n == last.node[1] IN
        /\ StoredIn(file.doc, GroupOf(n.role), n.hostname)
        /\ \A g \in {"control_plane", "workers"} \ {GroupOf(n.role)} :
              ~StoredIn(file.doc, g, n.hostname)

\* an update has moved a host from control_plane to workers
C3_Witness ==
    /\ last.op = "update" /\ last.err = ""
    /\ last.node[1].role = "worker"
    /\ backup.state = "doc"
    /\ StoredIn(backup.doc, "control_plane", last.hostname)
    /\ StoredIn(file.doc, "workers", last.hostname)

\* the node's hostname or address is already held by a stored host
Collides(doc, n) ==
    \/ Stored(doc, n.hostname)
    \/ \E p \in AddrPlaces(doc) : ParseIP(AddrAt(doc, p)) = n.tailscale_ip

(* C4: addHost fails whenever the hostname or the tailscale_ip is that of  *)
(* an existing host of either group, and the failed call leaves the        *)
(* document as it was.                                                     *)
C4_DuplicateRejected ==
    [][(Called("add") /\ file.state = "doc" /\ Collides(file.doc, last'.node[1])) =>
          /\ last'.err # ""
          /\ ValidFile(file) =>
               last'.err = IF Stored(file.doc, last'.hostname)
                           THEN "DuplicateHostname" ELSE "DuplicateAddress"
          /\ file' = file
          /\ backup' = backup]_vars

\* an add with a fresh hostname was refused for its address
C4_Witness ==
    /\ last.op = "add" /\ last.err = "DuplicateAddress"
    /\ ~Stored(file.doc, last.hostname)
    /\ Cardinality(Listed(file)) >= 1

(* C5: an addHost whose hostname and tailscale_ip are not yet stored        *)
(* succeeds; afterwards listHosts() returns every host it returned before, *)
(* unchanged, plus the added host, and one host more than before.          *)
C5_AddKeepsAll ==
    [][(Called("add") /\ ValidFile(file) /\ ~Collides(file.doc, last'.node[1])) =>
          LET n == last'.node[1]
              before == get_nodes(file, None).nodes
              after == get_nodes(file', None)
          IN /\ last'.err = ""
             /\ after.err = ""
             /\ Range(before) \subseteq Range(after.nodes)
             /\ \E m \in Range(after.nodes) \ Range(before) :
                   /\ m.hostname = n.hostname
                   /\ m.ansible_host = n.ansible_host
                   /\ m.tailscale_ip = n.tailscale_ip
                   /\ m.role = n.role
             /\ Len(after.nodes) = Len(before) + 1]_vars

\* two hosts were added one after the other to an empty inventory
C5_Witness ==
    /\ last.op = "add" /\ last.err = "" /\ nops = 2
    /\ backup.state = "doc"
    /\ Cardinality(Listed(backup)) = 1
    /\ Cardinality(Listed(file)) = 2

(* C6: removeHost of a stored hostname succeeds and removes it, so that a  *)
(* second removeHost of the name fails with NotFound; removeHost of a      *)
(* hostname stored in neither group fails with NotFound and leaves the     *)
(* document unchanged.                                                     *)
C6_RemoveThenNotFound ==
    [][(Called("remove") /\ ValidFile(file)) =>
          /\ Stored(file.doc, last'.hostname) =>
                /\ last'.err = ""
                /\ ~Stored(file'.doc, last'.hostname)
          /\ ~Stored(file.doc, last'.hostname) =>
                /\ last'.err = "NotFound"
                /\ file' = file
                /\ backup' = backup
          /\ (last.op = "remove" /\ last.err = "" /\ last.hostname = last'.hostname) =>
                /\ last'.err = "NotFound"
                /\ Listed(file') = Listed(file)]_vars

\* the second removal of a hostname was refused
C6_Witness ==
    /\ last.op = "remove" /\ last.err = "NotFound" /\ nops = 2
    /\ backup.state = "doc"
    /\ Stored(backup.doc, last.hostname)
    /\ ~Stored(file.doc, last.hostname)

(* C7: whatever groups all.children contains, setVar and getVars with a    *)
(* scope outside {all, control_plane, workers} fail.                       *)
C7_InvalidScopeRejected ==
    (last.op \in {"set_var", "get_vars"} /\ last.scope \notin ValidScopes) =>
        last.err # ""

(* C8: setVar(k, v, s) leaves what getVars returns for each of the other   *)
(* scopes exactly as it was.                                               *)
C8_ScopeIsolation ==
    [][Called("set_var") =>
          \A s \in ValidScopes \ {last'.scope} : get_vars(file', s) = get_vars(file, s)]_vars

\* a key set in control_plane is not visible in workers or all
C8_Witness ==
    /\ last.op = "set_var" /\ last.err = "" /\ last.scope = "control_plane"
    /\ last.key \in DOMAIN get_vars(file, "control_plane").vars
    /\ last.key \notin DOMAIN get_vars(file, "workers").vars
    /\ last.key \notin DOMAIN get_vars(file, "all").vars

(* C9: after a successful setVar(k, v, s), getVars(s)[k] is v, also when k *)
(* held another value before, and k occurs once in the vars of s.          *)
C9_Overwrite ==
    (last.op = "set_var" /\ last.err = "") =>
        LET got == get_vars(file, last.scope) IN
        /\ got.err = ""
        /\ last.key \in DOMAIN got.vars
        /\ got.vars[last.key] = last.value
        /\ Cardinality({k \in DOMAIN got.vars : k = last.key}) = 1

\* the second of two setVar calls replaced the value of the first
C9_Witness ==
    /\ last.op = "set_var" /\ last.err = "" /\ nops = 2
    /\ backup.state = "doc"
    /\ LET old == get_vars(backup, last.scope).vars IN
       /\ last.key \in DOMAIN old
       /\ old[last.key] # last.value

\* Node equality up to what to_inventory_dict does not keep: an empty
\* reserved_cpu / reserved_memory is stored as absent
Unblank(o) == IF o = Some("") THEN None ELSE o

(* C10 as stated: from_inventory_dict(h.hostname, to_inventory_dict(h))    *)
(* equals h in every field.                                                *)
C10_RoundTripAllFields ==
    rt.stage = "parsed" => rt.back[1] = rt.node[1]

(* C10 amended: the round trip returns h in hostname, ansible_host,        *)
(* tailscale_ip, gpu, node_labels and node_taints; reserved_cpu and        *)
(* reserved_memory come back equal unless they were the empty string,      *)
(* which comes back as null; role comes back as worker, and as h.role when *)
(* the caller adds role = h.role to the stored fields.                     *)
C10_RoundTrip ==
    LET expect == [rt.node[1] EXCEPT
                      !.reserved_cpu = Unblank(@),
                      !.reserved_memory = Unblank(@)]
    IN /\ rt.stage = "parsed" => rt.back[1] = [expect EXCEPT !.role = "worker"]
       /\ rt.stage = "parsed_with_role" => rt.back[1] = expect

\* a control-plane node with every optional field set has gone through
C10_Witness ==
    /\ rt.stage = "parsed_with_role"
    /\ rt.node[1].role = "control-plane"
    /\ rt.node[1].gpu
    /\ rt.node[1].reserved_cpu = Some("2")
    /\ rt.node[1].node_taints # <<>>
    /\ rt.back[1].role = "control-plane"

----------------------------------------------------------------------------
(* Failing writes *)

\* a call of SpecIO entered the write step and the step ended at stage
WriteEnded(stages) == nops' = nops + 1 /\ io' \in stages

\* C11: when the write step of a mutating operation fails (at mkdir, at the
\* backup copy, at open or at the dump), the inventory file holds the same
\* content as before the operation.
C11_FailedWriteKeepsFile ==
    [][(WriteEnded({"mkdir", "copy", "open", "dump"})
        /\ last'.err \in {"PermissionDenied", "WriteFailed"})
       => file' = file]_vars

\* C12: when a call reaches the overwrite of an existing file (open, whether
\* the write then succeeds, fails or the process dies), the backup holds the
\* content the file had before the call.
C12_BackupIsPreWrite ==
    [][(WriteEnded({"open", "dump", "done"}) /\ file.state # "missing")
       => backup' = file]_vars

\* a dump failed on an existing valid document: the file is damaged and the
\* backup is that document
C12_Witness ==
    /\ io = "dump"
    /\ last.err \in {"WriteFailed", "Crashed"}
    /\ file.state \in {"empty", "partial"}
    /\ backup.state = "doc"
    /\ validate(backup.doc)
    /\ Stored(backup.doc, "w-1")

----------------------------------------------------------------------------
(* Concurrent invocations *)

\* both invocations reported success, p wrote first and q wrote last
BothAdded(p, q) ==
    /\ conc.writers = <<p, q>>
    /\ \A i \in Procs : conc.procs[i].pc = "done" /\ conc.procs[i].err = ""

\* C13: two concurrent add_node calls with distinct hostnames and distinct
\* addresses can both succeed and leave only the host of the last writer.
\* As a property of every interleaving: when both succeed and the last
\* writer read the file before the first writer wrote (its snapshot lacks
\* the first writer's host), the final document lacks the first writer's
\* host and is the last writer's snapshot plus the last writer's host.
C13_LostUpdate ==
    \A p \in Procs, q \in Procs :
       LET first == conc.procs[p]
           lastw == conc.procs[q]
       IN (/\ BothAdded(p, q)
           /\ first.node.hostname # lastw.node.hostname
           /\ ~Stored(lastw.snap, first.node.hostname))
          => /\ ~Stored(file.doc, first.node.hostname)
             /\ Stored(file.doc, lastw.node.hostname)
             /\ file.doc = YamlLoad(YamlDump(lastw.data))

\* the lost update: both calls succeeded, hostnames and addresses differ,
\* and the document holds the last writer's host only
C13_Witness ==
    \E p \in Procs, q \in Procs :
       /\ BothAdded(p, q)
       /\ conc.procs[p].node.hostname # conc.procs[q].node.hostname
       /\ conc.procs[p].node.tailscale_ip # conc.procs[q].node.tailscale_ip
       /\ ~Stored(file.doc, conc.procs[p].node.hostname)
       /\ Stored(file.doc, conc.procs[q].node.hostname)

----------------------------------------------------------------------------
(* Validation before mutation *)

\* C14: get_vars and set_var validate the document they read: on a document
\* that fails schema validation set_var fails and writes nothing, and
\* get_vars fails.
C14_VarsValidate ==
    [][(/\ file.state = "doc"
        /\ ~validate(file.doc)
        /\ Called("set_var") \/ Called("get_vars"))
       => /\ last'.err # ""
          /\ file' = file
          /\ backup' = backup]_vars

\* the ways a document fails the schema: no all, no children, a required
\* group missing, hosts that is not a mapping, a host entry without
\* ansible_host or tailscale_ip, or one the Node model rejects
BreaksSchema(doc) ==
    \/ ~doc.hasAll
    \/ ~doc.hasChildren
    \/ \E g \in {"control_plane", "workers"} :
          \/ g \notin DOMAIN doc.children
          \/ doc.children[g].hostsKind = "other"
          \/ \E h \in DOMAIN HostsOf(doc, g) :
                LET entry == HostsOf(doc, g)[h] IN
                \/ "ansible_host" \notin DOMAIN entry
                \/ "tailscale_ip" \notin DOMAIN entry
                \/ ~from_inventory_dict_ok(h, WithRole(entry, RoleOf(g)))

\* C15: add_node, remove_node, update_node and get_nodes on a document that
\* fails the schema fail with a validation error, and leave the document
\* and the backup as they were.
C15_InvalidRejected ==
    [][(/\ file.state = "doc"
        /\ BreaksSchema(file.doc)
        /\ \E op \in {"add", "remove", "update", "list"} : Called(op))
       => /\ last'.err = "ValidationError"
          /\ file' = file
          /\ backup' = backup]_vars

\* update_node was refused on a document with a host that has no
\* tailscale_ip, after set_var had rewritten that document
C15_Witness ==
    /\ last.op = "update"
    /\ last.err = "ValidationError"
    /\ file.state = "doc"
    /\ "cp-1" \in DOMAIN HostsOf(file.doc, "workers")
    /\ "tailscale_ip" \notin DOMAIN HostsOf(file.doc, "workers")["cp-1"]
    /\ backup.state = "doc"

----------------------------------------------------------------------------
(* What successful mutations keep *)

\* one of the four mutating calls was made in this step and succeeded
Mutated ==
    /\ \E op \in {"add", "remove", "update", "set_var"} : Called(op)
    /\ last'.err = ""

\* every host entry stored under control_plane or workers has a non-empty
\* ansible_host and a tailscale_ip
EntriesAddressed(doc) ==
    \A g \in {"control_plane", "workers"} :
       \A h \in DOMAIN HostsOf(doc, g) :
          LET entry == HostsOf(doc, g)[h] IN
          /\ "ansible_host" \in DOMAIN entry
          /\ entry["ansible_host"] # ""
          /\ "tailscale_ip" \in DOMAIN entry

\* C16: a successful add_node, remove_node, update_node or set_var on a
\* document that passes validation writes a document that passes
\* validation, every stored host entry having a non-empty ansible_host and
\* a tailscale_ip.
C16_ValidStaysValid ==
    [][(ValidFile(file) /\ Mutated)
       => /\ ValidFile(file')
          /\ EntriesAddressed(file'.doc)]_vars

\* two successful mutations from a valid document, the last an update_node
\* that moved a host, both groups holding a host
C16_Witness ==
    /\ nops = 2
    /\ last.op = "update"
    /\ last.err = ""
    /\ ValidFile(backup)
    /\ ValidFile(file)
    /\ FindGroup(backup.doc.children, last.hostname)
         # FindGroup(file.doc.children, last.hostname)
    /\ DOMAIN HostsOf(file.doc, "control_plane") # {}
    /\ DOMAIN HostsOf(file.doc, "workers") # {}

\* group g of the document has a hosts mapping
HasHosts(doc, g) ==
    g \in DOMAIN doc.children /\ doc.children[g].hostsKind = "mapping"

(* C17 as stated: after every successful mutation of a document that       *)
(* passes validation, control_plane and workers exist and each has a hosts *)
(* container.                                                              *)
C17_GroupsHaveHosts ==
    [][(ValidFile(file) /\ Mutated)
       => \A g \in {"control_plane", "workers"} : HasHosts(file'.doc, g)]_vars

(* C17 amended: after every successful mutation of a document that passes  *)
(* validation, control_plane and workers exist; a group has a hosts        *)
(* container afterwards exactly when it had one before or the call         *)
(* (add_node, update_node) stored its host in that group.  A group without *)
(* a hosts key, which validation accepts, stays without one until a host   *)
(* is stored in it.                                                        *)
C17_HostsContainerKept ==
    [][(ValidFile(file) /\ Mutated)
       => \A g \in {"control_plane", "workers"} :
             /\ g \in DOMAIN file'.doc.children
             /\ HasHosts(file'.doc, g)
                  <=> \/ HasHosts(file.doc, g)
                      \/ /\ last'.op \in {"add", "update"}
                         /\ StoredIn(file'.doc, g, last'.hostname)]_vars

\* add_node on a document whose groups had no hosts key: the group of the
\* new host has a hosts mapping, the other group still has none
C17_Witness ==
    /\ last.op = "add"
    /\ last.err = ""
    /\ ValidFile(backup)
    /\ \A g \in {"control_plane", "workers"} : ~HasHosts(backup.doc, g)
    /\ \E g \in {"control_plane", "workers"} : HasHosts(file.doc, g)
    /\ \E g \in {"control_plane", "workers"} :
          g \in DOMAIN file.doc.children /\ ~HasHosts(file.doc, g)

----------------------------------------------------------------------------
(* update_node and remove_node *)

\* hostname is stored under exactly one of control_plane, workers
InOneGroup(doc, hostname) ==
    StoredIn(doc, "control_plane", hostname) # StoredIn(doc, "workers", hostname)

\* C18: a successful update_node writes the document once: the backup is
\* the document of before the call, and both the document written and the
\* backup hold the host in exactly one group; no document with the host in
\* neither group or in both is ever persisted.
C18_UpdateWritesOnce ==
    [][(Called("update") /\ last'.err = "")
       => /\ backup' = file
          /\ InOneGroup(file'.doc, last'.hostname)
          /\ InOneGroup(backup'.doc, last'.hostname)]_vars

\* update_node moved a host from workers to control_plane
C18_Witness ==
    /\ last.op = "update"
    /\ last.err = ""
    /\ last.node[1].role = "control-plane"
    /\ StoredIn(backup.doc, "workers", last.hostname)
    /\ StoredIn(file.doc, "control_plane", last.hostname)
    /\ ~StoredIn(file.doc, "workers", last.hostname)

\* C19: update_node for a hostname stored in neither group fails and writes
\* nothing (the document and the backup stay as they were); on a document
\* that passes validation the failure is NotFound.
C19_UpdateNotFound ==
    [][(Called("update") /\ ~Stored(file.doc, last'.hostname))
       => /\ last'.err # ""
          /\ ValidFile(file) => last'.err = "NotFound"
          /\ file' = file
          /\ backup' = backup]_vars

\* update_node was refused with NotFound on a valid document that holds
\* another host, after an earlier write
C19_Witness ==
    /\ last.op = "update"
    /\ last.err = "NotFound"
    /\ ValidFile(file)
    /\ ~Stored(file.doc, last.hostname)
    /\ \E h \in Hostnames : Stored(file.doc, h)
    /\ backup.state = "doc"

\* the vars mapping of a scope, and whether the scope has a vars key
VarsOf(doc, scope) ==
    IF scope = "all" THEN <<doc.hasVars, doc.vars>>
    ELSE <<doc.children[scope].hasVars, doc.children[scope].vars>>

\* C20: a successful remove_node(name) deletes the entry of name from
\* control_plane when it is there and from workers otherwise, and nothing
\* else: the other entries of that group, every entry of the other group
\* (an entry of the same name included) and the vars of all, control_plane
\* and workers are the same before and after.
C20_RemoveExactlyOne ==
    [][(Called("remove") /\ last'.err = "")
       => LET name == last'.hostname
              g == IF StoredIn(file.doc, "control_plane", name)
                   THEN "control_plane" ELSE "workers"
              other == IF g = "control_plane" THEN "workers" ELSE "control_plane"
          IN /\ StoredIn(file.doc, g, name)
             /\ DOMAIN HostsOf(file'.doc, g) = DOMAIN HostsOf(file.doc, g) \ {name}
             /\ \A h \in DOMAIN HostsOf(file'.doc, g) :
                   HostsOf(file'.doc, g)[h] = HostsOf(file.doc, g)[h]
             /\ HostsOf(file'.doc, other) = HostsOf(file.doc, other)
             /\ HasHosts(file'.doc, other) <=> HasHosts(file.doc, other)
             /\ \A scope \in ValidScopes :
                   VarsOf(file'.doc, scope) = VarsOf(file.doc, scope)]_vars

\* remove_node deleted cp-1 from control_plane and left the entry of the
\* same name under workers
C20_Witness ==
    /\ last.op = "remove"
    /\ last.err = ""
    /\ last.hostname = "cp-1"
    /\ StoredIn(backup.doc, "control_plane", "cp-1")
    /\ StoredIn(backup.doc, "workers", "cp-1")
    /\ ~StoredIn(file.doc, "control_plane", "cp-1")
    /\ StoredIn(file.doc, "workers", "cp-1")
    /\ StoredIn(file.doc, "workers", "w-1")

----------------------------------------------------------------------------
(* Instances keep no document *)

\* the hostnames of the nodes of a sequence
NamesOf(nodes) == {nodes[k].hostname : k \in DOMAIN nodes}

\* C21: whatever instance makes a call and whatever that instance read in
\* an earlier call, the outcome follows from the file as last written:
\* add_node reports a duplicate hostname exactly when the file stores the
\* hostname and succeeds exactly when neither hostname nor address is
\* stored there, remove_node and update_node report NotFound exactly when
\* the file does not store the hostname, and get_nodes returns the hosts
\* the file stores.
C21_DecidedByFile ==
    [][(nops' = nops + 1 /\ ValidFile(file))
       => LET name == last'.hostname IN
          /\ last'.op = "add" =>
                /\ last'.err = "DuplicateHostname" <=> Stored(file.doc, name)
                /\ last'.err = "" <=> ~Collides(file.doc, last'.node[1])
          /\ last'.op \in {"remove", "update"} =>
                /\ last'.err = "NotFound" <=> ~Stored(file.doc, name)
                /\ last'.err = "" <=> Stored(file.doc, name)
          /\ (last'.op = "list" /\ last'.scope = "") =>
                /\ last'.err = ""
                /\ NamesOf(inst'.result) = {h \in Hostnames : Stored(file.doc, h)}]_vars

\* an instance listed the hosts before another instance added one; its
\* add_node of the same hostname is then refused, although the document it
\* had read does not hold that hostname
C21_Witness ==
    /\ last.op = "add"
    /\ last.err = "DuplicateHostname"
    /\ inst.prev # None
    /\ ~Stored(inst.prev[1], last.hostname)
    /\ Stored(file.doc, last.hostname)
    /\ \E i \in Instances :
          i # inst.who /\ inst.seen[i] # None /\ ~Stored(inst.seen[i][1], last.hostname)

----------------------------------------------------------------------------
(* Optional fields in storage *)

\* the node has every optional field at its default
AllDefaults(n) ==
    /\ n.reserved_cpu = None
    /\ n.reserved_memory = None
    /\ ~n.gpu
    /\ DOMAIN n.node_labels = {}
    /\ n.node_taints = <<>>

\* C22: to_inventory_dict writes an optional field only when it is not at
\* its default: reserved_cpu / reserved_memory only when non-null, gpu only
\* when true, node_labels and node_taints only when non-empty.  A host with
\* every optional field at its default, added through the store, is stored
\* with exactly ansible_host and tailscale_ip, and get_nodes returns it
\* with the defaults.
C22_OnlyNonDefaultStored ==
    rt.stage \in {"stored", "listed"} =>
       LET n == rt.node[1]
           keys == DOMAIN rt.data
       IN /\ {"ansible_host", "tailscale_ip"} \subseteq keys
          /\ keys \subseteq {"ansible_host", "tailscale_ip", "reserved_cpu",
                              "reserved_memory", "gpu", "node_labels", "node_taints"}
          /\ "reserved_cpu" \in keys => n.reserved_cpu # None
          /\ "reserved_memory" \in keys => n.reserved_memory # None
          /\ "gpu" \in keys => n.gpu
          /\ "node_labels" \in keys => DOMAIN n.node_labels # {}
          /\ "node_taints" \in keys => n.node_taints # <<>>
          /\ (rt.stage = "listed" /\ AllDefaults(n)) =>
                /\ keys = {"ansible_host", "tailscale_ip"}
                /\ AllDefaults(rt.back[1])
                /\ rt.back[1] = n

\* a control-plane host with only the required fields was added and listed
C22_Witness ==
    /\ rt.stage = "listed"
    /\ AllDefaults(rt.node[1])
    /\ rt.node[1].role = "control-plane"
    /\ file.state = "doc"
    /\ rt.node[1].hostname \in DOMAIN file.doc.children["control_plane"].hosts

----------------------------------------------------------------------------
(* Reading calls *)

\* C23: get_nodes, get_vars and validate, whether they succeed or fail,
\* leave the inventory file and the backup exactly as they were.
C23_ReadOnly ==
    [][(\E op \in {"list", "get_vars", "validate"} : Called(op))
       => file' = file /\ backup' = backup]_vars

\* a reading call failed after a write that had made a backup
C23_Witness ==
    /\ nops = 2
    /\ last.op \in {"list", "get_vars", "validate"}
    /\ backup.state = "doc"
    /\ file.state = "doc"
    /\ file.doc # backup.doc
    /\ last.err # ""

\* the nodes of seq are the hosts stored under group g of the document,
\* each entry once, with the role of the group and the stored addresses
ListsGroup(seq, doc, g) ==
    LET hosts == HostsOf(doc, g) IN
    /\ Len(seq) = Cardinality(DOMAIN hosts)
    /\ NamesOf(seq) = DOMAIN hosts
    /\ \A k \in DOMAIN seq :
          /\ seq[k].role = RoleOf(g)
          /\ seq[k].ansible_host = hosts[seq[k].hostname]["ansible_host"]
          /\ seq[k].tailscale_ip = ParseIP(hosts[seq[k].hostname]["tailscale_ip"])

\* C24: get_nodes(g), g being control_plane or workers, returns exactly the
\* hosts stored under g; get_nodes() returns the hosts of control_plane
\* followed by the hosts of workers, each stored entry once.
C24_ListExact ==
    (last.op = "list" /\ last.err = "") =>
       LET res == inst.result
           ncp == Cardinality(DOMAIN HostsOf(file.doc, "control_plane"))
       IN /\ last.scope \in {"control_plane", "workers"} =>
                ListsGroup(res, file.doc, last.scope)
          /\ last.scope = "" =>
                /\ Len(res) >= ncp
                /\ ListsGroup(SubSeq(res, 1, ncp), file.doc, "control_plane")
                /\ ListsGroup(SubSeq(res, ncp + 1, Len(res)), file.doc, "workers")

\* get_nodes() returned a control_plane host followed by a workers host
C24_Witness ==
    /\ last.op = "list"
    /\ last.err = ""
    /\ last.scope = ""
    /\ Len(inst.result) = 2
    /\ inst.result[1].role = "control-plane"
    /\ inst.result[2].role = "worker"
    /\ inst.result[1].hostname # inst.result[2].hostname
    /\ backup.state = "doc"

----------------------------------------------------------------------------
(* Dotted keys *)

\* every key path that the documents hold or that a call can create
Paths ==
    {<<"k3s">>, <<"k3s", "version">>, <<"k3s", "version", "patch">>,
     <<"k3s", "channel">>, <<"k3s_version">>, <<"k3s_version", "minor">>,
     <<"cluster_name">>, <<"owner">>}

\* the value found by following keys from the mapping m, or None
RECURSIVE Navigate(_, _)
Navigate(m, keys) ==
    LET k == Head(keys) IN
    IF k \notin DOMAIN m THEN None
    ELSE IF Len(keys) = 1 THEN Some(m[k])
    ELSE IF m[k].kind # "map" THEN None
    ELSE Navigate(m[k].items, Tail(keys))

IsPrefix(p, q) == Len(p) <= Len(q) /\ SubSeq(q, 1, Len(p)) = p

\* a segment before the last holds a value that is not a mapping
Blocked(m, keys) ==
    \E n \in 1..(Len(keys) - 1) :
       LET v == Navigate(m, SubSeq(keys, 1, n)) IN v # None /\ v[1].kind # "map"

\* C25: config_set of a dotted key in a valid scope, with a value that
\* parses: when no segment before the last holds a non-mapping value, the
\* call succeeds, the value is found by following the segments in
\* get_vars(scope), whether or not the scope had a vars mapping, and every
\* key path that is neither above nor below the key keeps its value (the
\* other keys nested under the first segment and the other top-level keys
\* of the scope); otherwise an error is reported and nothing is written.
C25_DottedKey ==
    [][(/\ Called("config_set")
        /\ ValidFile(file)
        /\ last'.scope \in ValidScopes
        /\ last'.value # NoValue)
       => LET keys == Split(last'.key)
              before == VarsOf(file.doc, last'.scope)[2]
              after == get_vars(file', last'.scope).vars
          IN IF Blocked(before, keys)
             THEN /\ last'.err # ""
                  /\ file' = file
                  /\ backup' = backup
             ELSE /\ last'.err = ""
                  /\ Navigate(after, keys) = Some(last'.value)
                  /\ \A p \in Paths :
                        (~IsPrefix(p, keys) /\ ~IsPrefix(keys, p))
                        => Navigate(after, p) = Navigate(before, p)]_vars

\* k3s.channel was set under workers after k3s.version: both are found
\* under k3s
C25_Witness ==
    /\ last.op = "config_set"
    /\ last.err = ""
    /\ last.key = "k3s.channel"
    /\ last.scope = "workers"
    /\ Navigate(VarsOf(file.doc, "workers")[2], <<"k3s", "channel">>) = Some(last.value)
    /\ Navigate(VarsOf(file.doc, "workers")[2], <<"k3s", "version">>) # None
    /\ Navigate(VarsOf(backup.doc, "workers")[2], <<"k3s", "channel">>) = None

----------------------------------------------------------------------------
(* Hosts and variables *)

----------------------------------------------------------------------------
(* add_node among other writers *)

\* the last write of the file was the write of an add_node
AddWroteLast ==
    /\ Len(conc.writers) > 0
    /\ conc.writers[Len(conc.writers)] \in Procs

\* C27: add_node checks the new host against the hosts of the document it
\* then mutates and writes, so that a document written by a successful
\* add_node has no hostname under both groups and no two entries with the
\* same tailscale_ip, whatever other invocations wrote between its steps.
C27_AddWritesUnique ==
    AddWroteLast
    => /\ \A h \in Hostnames :
             ~(StoredIn(file.doc, "control_plane", h)
               /\ StoredIn(file.doc, "workers", h))
       /\ \A p1 \in AddrPlaces(file.doc), p2 \in AddrPlaces(file.doc) :
             p1 # p2 => AddrAt(file.doc, p1) # AddrAt(file.doc, p2)

----------------------------------------------------------------------------
(* update_node replaces *)

\* the places <<group, hostname>> of the host entries of a document
Places(doc) ==
    {<<g, h>> \in {"control_plane", "workers"} \X Hostnames : StoredIn(doc, g, h)}

\* C28: after a successful update_node(node) on a valid document the entry
\* of node.hostname is to_inventory_dict(node) and nothing else, stored
\* under the group of node.role only: no field of the previous entry that
\* the node does not carry is left; every other host entry is where it was
\* and as it was.
C28_UpdateReplaces ==
    [][(Called("update") /\ last'.err = "")
       => LET node == last'.node[1]
              place == <<GroupOf(node.role), node.hostname>>
          IN /\ Places(file'.doc) \ {place}
                  = {pl \in Places(file.doc) : pl[2] # node.hostname}
             /\ place \in Places(file'.doc)
             /\ HostsOf(file'.doc, place[1])[place[2]] = to_inventory_dict(node)
             /\ \A pl \in Places(file'.doc) \ {place} :
                   HostsOf(file'.doc, pl[1])[pl[2]] = HostsOf(file.doc, pl[1])[pl[2]]]_vars

\* update_node succeeded on an entry that held a key the node does not
\* carry, and the key is gone
C28_Witness ==
    /\ last.op = "update"
    /\ last.err = ""
    /\ backup.state = "doc"
    /\ \E g \in {"control_plane", "workers"} :
          /\ StoredIn(backup.doc, g, last.hostname)
          /\ DOMAIN HostsOf(backup.doc, g)[last.hostname]
                \ DOMAIN to_inventory_dict(last.node[1]) # {}
    /\ HostsOf(file.doc, GroupOf(last.node[1].role))[last.hostname]
          = to_inventory_dict(last.node[1])

----------------------------------------------------------------------------
(* The group decides the role *)

\* the places whose entry carries a role key
RolePlaces(doc) == {pl \in Places(doc) : "role" \in DOMAIN HostsOf(doc, pl[1])[pl[2]]}

\* C29: the group is the only authority for a host's role.  The entry that
\* a successful add_node or update_node stored has no role key; every node
\* that get_nodes returns for a group has the role of that group, and
\* _validate_host gives the same verdict on an entry with and without its
\* role key, also when the stored role key names the other role.
C29_GroupDecidesRole ==
    /\ (last.op \in {"add", "update"} /\ last.err = "" /\ file.state = "doc")
       => <<GroupOf(last.node[1].role), last.hostname>> \notin RolePlaces(file.doc)
    /\ ValidFile(file)
       => \A g \in {"control_plane", "workers"} :
             LET nodes == get_nodes(file, <<g>>).nodes IN
             /\ Len(nodes) = Cardinality(DOMAIN HostsOf(file.doc, g))
             /\ \A i \in DOMAIN nodes :
                   /\ nodes[i].role = RoleOf(g)
                   /\ StoredIn(file.doc, g, nodes[i].hostname)
    /\ (file.state = "doc" /\ file.doc.hasAll /\ file.doc.hasChildren)
       => \A pl \in RolePlaces(file.doc) :
             LET entry == HostsOf(file.doc, pl[1])[pl[2]] IN
             validate_host(pl[2], entry, pl[1])
                <=> validate_host(pl[2], Del(entry, "role"), pl[1])

\* after a successful add_node the document still holds a hand-written
\* entry whose role key names the other role, and get_nodes lists that host
\* with the role of its group
C29_Witness ==
    /\ last.op = "add"
    /\ last.err = ""
    /\ \E pl \in RolePlaces(file.doc) :
          /\ HostsOf(file.doc, pl[1])[pl[2]]["role"] # RoleOf(pl[1])
          /\ \E n \in Listed(file) : n.hostname = pl[2] /\ n.role = RoleOf(pl[1])
          /\ pl[2] # last.hostname

----------------------------------------------------------------------------
(* The refresh loop *)

\* a title is among the notifications of a call
Notified(call, title) == \E i \in DOMAIN call.notes : call.notes[i] = title

\* C30: over any sequence of refreshes, (1) the last known cluster state
\* changes only in a refresh that fetched a state, and then to that state:
\* a failed refresh leaves it as it was; (2) a refresh raises the
\* "Connection Error" notification only when it failed and the refresh
\* before it, if any, succeeded, and after a refresh returned the error
\* flag is set exactly when that refresh failed; (3) _is_refreshing is
\* false whenever no call of refresh_data is under way.
C30_RefreshLoop ==
    /\ \A i \in DOMAIN tui.history :
          LET call == tui.history[i] IN
          /\ call.kind # "state" => call.after = call.before
          /\ call.kind = "state" => call.after \in {Some(s) : s \in ClusterStates}
          /\ call.before = IF i = 1 THEN None ELSE tui.history[i - 1].after
          /\ Notified(call, "Connection Error")
                => /\ call.kind # "state"
                   /\ i > 1 => tui.history[i - 1].kind = "state"
    /\ (tui.pc # "idle" /\ tui.last_cluster_state # tui.before)
          => /\ tui.pc = "finally"
             /\ tui.fetched[1].kind = "state"
             /\ tui.last_cluster_state = Some(tui.fetched[1].state)
    /\ (tui.pc = "idle" /\ tui.history # <<>>)
          => /\ tui.before = tui.history[Len(tui.history)].before
             /\ tui.last_cluster_state = tui.history[Len(tui.history)].after
             /\ tui.connection_error
                   <=> tui.history[Len(tui.history)].kind # "state"
    /\ tui.pc = "idle" => ~tui.is_refreshing

\* a state was fetched, then two refreshes failed, of which the first one
\* notified and the second did not, and the state of the first refresh is
\* still the last known one
C30_Witness ==
    /\ tui.pc = "idle"
    /\ Len(tui.history) = 3
    /\ tui.history[1].kind = "state"
    /\ tui.history[2].kind = "none"
    /\ tui.history[3].kind = "raise"
    /\ Notified(tui.history[2], "Connection Error")
    /\ ~Notified(tui.history[3], "Connection Error")
    /\ tui.last_cluster_state = tui.history[1].after
    /\ tui.last_cluster_state # None
    /\ tui.connection_error
    /\ ~tui.is_refreshing

====
